---- MODULE Spec2Model ----
(***************************************************************************)
(* Verification model of ftl2: the gate message loop and module type       *)
(* detection (src/ftl2/ftl_gate/__main__.py), the state store and its      *)
(* merge into the inventory (src/ftl2/state), the fan-out executor         *)
(* (src/ftl2/executor.py), the argument resolver (src/ftl2/arguments.py),  *)
(* the module runners and their factory (src/ftl2/runners.py), the module  *)
(* proxies, ping and wait_for_ssh (src/ftl2/automation/proxy.py), the      *)
(* safety checks (src/ftl2/safety.py), the progress reporters              *)
(* (src/ftl2/progress.py), the gate builder cache (ftl2.gate) and the      *)
(* frame codec of the gate debugger (tools/gate_debug.py).  Each           *)
(* subsystem has its own specification; the variables of the other         *)
(* subsystems keep their initial values.                                   *)
(***************************************************************************)
EXTENDS Integers, Sequences, FiniteSets, TLC

VARIABLES
    \* ---- gate process (ftl_gate/__main__.py) ----
    HAS_FTL_GATE,   \* module-level flag: the ftl_gate bundle could be imported
    received,       \* frames read_message has returned so far, in order
    inflight,       \* indexes of requests whose execute_* coroutine is awaited
    out,            \* frames written to stdout, each with the request it answers
    gate_ret        \* "running", or the value main() returned: "None" / "1"

gateVars == <<HAS_FTL_GATE, received, inflight, out, gate_ret>>

VARIABLES
    \* ---- state store (state/state.py, state/file.py) ----
    data,           \* State.data: the in-memory document
    fs,             \* the state directory: the file at path and the temp file
    orphans,        \* temp files of earlier writes still in the directory
    spc,            \* where the store is: "idle", a step of write_state_file, "crashed"
    sop,            \* the operation called last (the one running when spc # "idle")
    content,        \* write_state_file's local: the document being written
    last_result,    \* how the last call ended: "ok", "False", "raised", "none"
    clock,          \* what datetime.now() returns
    nops            \* calls made so far

storeVars == <<data, fs, orphans, spc, sop, content, last_result, clock, nops>>

VARIABLES
    \* ---- fan-out executor (executor.py) ----
    chunk_size,     \* ModuleExecutor.chunk_size
    nhosts,         \* the inventory: hosts 1..nhosts, in get_all_hosts() order
    epc,            \* where run is: "loop", "gather" (awaiting the chunk), "done"
    next_i,         \* the offset chunk() yields from next
    tasks,          \* per host: "none", "running", or how runner.run ended
    all_results,    \* run's all_results: host -> ModuleResult
    summary         \* the ExecutionResults returned

execVars == <<chunk_size, nhosts, epc, next_i, tasks, all_results, summary>>

VARIABLES
    \* ---- argument resolver (arguments.py) ----
    m_host,         \* the HostConfig: name and vars
    m_module_args,  \* module_args
    m_host_args,    \* host_args
    m_result,       \* what merge_arguments returned or raised
    m_done          \* merge_arguments has been called

mergeVars == <<m_host, m_module_args, m_host_args, m_result, m_done>>

VARIABLES
    \* ---- local module runner (runners.py) ----
    r_host,         \* host.name of the HostConfig passed to run
    r_module,       \* what find_module finds for context.module_name
    r_result,       \* the ModuleResult LocalModuleRunner.run returned
    r_done          \* run has been called

runnerVars == <<r_host, r_module, r_result, r_done>>

VARIABLES
    \* ---- module proxies (automation/proxy.py) ----
    d_call,         \* the call made on ftl: through a host or at the top, and the module path
    d_pc,           \* the proxy object the call has reached, or "done"
    d_path,         \* self._path of the proxy reached
    d_depth,        \* HostScopedModuleProxy.__call__ frames on the stack
    d_outcome       \* where the call ended

dispatchVars == <<d_call, d_pc, d_path, d_depth, d_outcome>>

VARIABLES
    \* ---- safety checks (safety.py) ----
    s_module,       \* module_name
    s_args,         \* module_args: cmd, _raw_params, state, path
    s_override,     \* the caller allows destructive commands
    s_result,       \* the SafetyCheckResult
    s_pc,           \* "call", "checked", "refused" or "sent"
    s_sent          \* requests sent to the host

safetyVars == <<s_module, s_args, s_override, s_result, s_pc, s_sent>>

VARIABLES
    \* ---- wait_for_ssh (automation/proxy.py) ----
    w_params,       \* timeout, delay, sleep, connect_timeout, in seconds
    w_pc,           \* "delay", "connect", "sleep", "returned" or "raised"
    w_now,          \* seconds since wait_for_ssh was called
    w_start,        \* start = time.monotonic(), as seconds since the call
    w_target,       \* the host or group the proxy is scoped to
    w_probed        \* the addresses open_connection was tried on

waitVars == <<w_params, w_pc, w_now, w_start, w_target, w_probed>>

VARIABLES
    \* ---- classic module classification (ftl_gate/__main__.py) ----
    c_module,       \* module_bytes, as a sequence of byte units
    c_shape,        \* the branch execute_module took ("none" before it runs)
    c_args,         \* how module_args reach the module on that branch
    c_suffix,       \* module_path.suffix of the same module on the controller
    c_local_shape,  \* the branch LocalModuleRunner.run took ("none" before)
    c_local_args    \* how module_args reach the module on that branch

classifyVars ==
    <<c_module, c_shape, c_args, c_suffix, c_local_shape, c_local_args>>

VARIABLES
    \* ---- runner selection (runners.py ModuleRunnerFactory) ----
    f_local_runner,  \* factory._local_runner is not None
    f_remote_runner, \* factory._remote_runner is not None
    f_cur,           \* the dispatch under way: host and the runner chosen for it
    f_log            \* the dispatches done: host, runner that served it, how it ended

factoryVars == <<f_local_runner, f_remote_runner, f_cur, f_log>>

VARIABLES
    \* ---- progress reporting (progress.py) ----
    p_reporter,     \* the class create_progress_reporter returned
    p_sink,         \* the output stream: "ok", or "broken" (writes raise OSError)
    p_pc,           \* where the reporting run is
    p_host,         \* the host being executed
    p_ran,          \* per host: how the module ended on it
    p_results,      \* per host: the outcome the run recorded
    p_written,      \* the lines written to the output stream
    p_completed     \* TextProgressReporter.completed

progressVars ==
    <<p_reporter, p_sink, p_pc, p_host, p_ran, p_results, p_written, p_completed>>

VARIABLES
    \* ---- state hosts merged into the inventory (state/merge.py) ----
    i_inventory,    \* the Inventory: group name -> NoGroup or its hosts by name
    i_state,        \* state.data["hosts"]: host name -> NoHost or the host data
    i_merged        \* the state hosts the loop has handled

inventoryVars == <<i_inventory, i_state, i_merged>>

VARIABLES
    \* ---- gate builder and cache (ftl2.gate, described in the spec) ----
    b_files,        \* the module search root: module name -> bytes, or "absent"
    b_cache,        \* the cache directory: archive path -> archive bytes
    b_log           \* the builds done: config, files seen, hash, path, cache hit

builderVars == <<b_files, b_cache, b_log>>

\* Frame codec of the gate debugger (tools/gate_debug.py).
VARIABLES
    k_sent,       \* the messages encoded onto the stream, in order
    k_raw,        \* the bytes of the stream
    k_pos,        \* how many bytes reader_thread has read
    k_buf,        \* reader_thread's buf
    k_shown,      \* the messages reader_thread has displayed
    k_reader,     \* "running", or "raised" once reader_thread has died
    k_decoded     \* what decode_messages(k_raw) returned, once called

codecVars == <<k_sent, k_raw, k_pos, k_buf, k_shown, k_reader, k_decoded>>

\* ping (automation/proxy.py).
VARIABLES
    g_target,     \* the host or group the proxy is scoped to
    g_reply,      \* what the context's execute or run_on call came back with
    g_pc,         \* "call" before ping(), "done" after
    g_outcome     \* what ping() returned or raised

pingVars == <<g_target, g_reply, g_pc, g_outcome>>

vars ==
    <<gateVars, storeVars, execVars, mergeVars,
      runnerVars, dispatchVars, safetyVars, waitVars,
      classifyVars, factoryVars, progressVars, inventoryVars,
      builderVars, codecVars, pingVars>>

\* The variables each subsystem leaves alone.
notGate ==
    <<storeVars, execVars, mergeVars, runnerVars,
      dispatchVars, safetyVars, waitVars, classifyVars,
      factoryVars, progressVars, inventoryVars, builderVars,
      codecVars, pingVars>>
notStore ==
    <<gateVars, execVars, mergeVars, runnerVars,
      dispatchVars, safetyVars, waitVars, classifyVars,
      factoryVars, progressVars, inventoryVars, builderVars,
      codecVars, pingVars>>
notExec ==
    <<gateVars, storeVars, mergeVars, runnerVars,
      dispatchVars, safetyVars, waitVars, classifyVars,
      factoryVars, progressVars, inventoryVars, builderVars,
      codecVars, pingVars>>
notMerge ==
    <<gateVars, storeVars, execVars, runnerVars,
      dispatchVars, safetyVars, waitVars, classifyVars,
      factoryVars, progressVars, inventoryVars, builderVars,
      codecVars, pingVars>>
notRunner ==
    <<gateVars, storeVars, execVars, mergeVars,
      dispatchVars, safetyVars, waitVars, classifyVars,
      factoryVars, progressVars, inventoryVars, builderVars,
      codecVars, pingVars>>
notDispatch ==
    <<gateVars, storeVars, execVars, mergeVars,
      runnerVars, safetyVars, waitVars, classifyVars,
      factoryVars, progressVars, inventoryVars, builderVars,
      codecVars, pingVars>>
notSafety ==
    <<gateVars, storeVars, execVars, mergeVars,
      runnerVars, dispatchVars, waitVars, classifyVars,
      factoryVars, progressVars, inventoryVars, builderVars,
      codecVars, pingVars>>
notWait ==
    <<gateVars, storeVars, execVars, mergeVars,
      runnerVars, dispatchVars, safetyVars, classifyVars,
      factoryVars, progressVars, inventoryVars, builderVars,
      codecVars, pingVars>>
notClassify ==
    <<gateVars, storeVars, execVars, mergeVars,
      runnerVars, dispatchVars, safetyVars, waitVars,
      factoryVars, progressVars, inventoryVars, builderVars,
      codecVars, pingVars>>
notFactory ==
    <<gateVars, storeVars, execVars, mergeVars,
      runnerVars, dispatchVars, safetyVars, waitVars,
      classifyVars, progressVars, inventoryVars, builderVars,
      codecVars, pingVars>>
notProgress ==
    <<gateVars, storeVars, execVars, mergeVars,
      runnerVars, dispatchVars, safetyVars, waitVars,
      classifyVars, factoryVars, inventoryVars, builderVars,
      codecVars, pingVars>>
notInventory ==
    <<gateVars, storeVars, execVars, mergeVars,
      runnerVars, dispatchVars, safetyVars, waitVars,
      classifyVars, factoryVars, progressVars, builderVars,
      codecVars, pingVars>>
notBuilder ==
    <<gateVars, storeVars, execVars, mergeVars,
      runnerVars, dispatchVars, safetyVars, waitVars,
      classifyVars, factoryVars, progressVars, inventoryVars,
      codecVars, pingVars>>
notCodec ==
    <<gateVars, storeVars, execVars, mergeVars,
      runnerVars, dispatchVars, safetyVars, waitVars,
      classifyVars, factoryVars, progressVars, inventoryVars,
      builderVars, pingVars>>
notPing ==
    <<gateVars, storeVars, execVars, mergeVars,
      runnerVars, dispatchVars, safetyVars, waitVars,
      classifyVars, factoryVars, progressVars, inventoryVars,
      builderVars, codecVars>>

\* ------------------------------------------------------------------------
\* Bounds
\* ------------------------------------------------------------------------
MaxFrames == 3
MaxOps == 3
MaxHosts == 4
MaxChunk == 3


\* ------------------------------------------------------------------------
\* State store: documents and files
\* ------------------------------------------------------------------------
Names == {"web01", "db01"}
Addresses == {"10.0.0.5"}
None == "None"
\* A value json.dumps cannot encode (a set, an object).
Unserializable == "<object>"
Providers == {"linode", Unserializable}
NoTime == -1

NoEntries == [n \in {} |-> n]

\* _empty_state: a document without hosts and resources, stamped now.
_empty_state(now) == [hosts |-> NoEntries, resources |-> NoEntries, updated_at |-> now]

\* What a path of the state directory holds.  partial: a prefix of the JSON
\* text of doc; full: the whole text and the trailing newline.
File(k, d) == [kind |-> k, doc |-> d]
Absent == File("absent", _empty_state(0))
EmptyFile == File("empty", _empty_state(0))
Corrupt == File("corrupt", _empty_state(0))

\* json.dumps raises TypeError for a value it cannot encode.
Serializable(d) ==
    \A n \in DOMAIN d.resources : d.resources[n].provider # Unserializable

\* read_state_file: a missing or blank file, and text json.loads rejects, give
\* the empty state; otherwise the parsed document.
read_state_file(f, now) ==
    IF f.kind = "full" THEN f.doc ELSE _empty_state(now)

temp_path_in_place == "state"

\* mkstemp(dir=path.parent, prefix=".ftl2-state-", suffix=".tmp"): the file
\* written is a sibling of the state file, not the state file.
temp_path == "tmp"

os_rename_dropped(f) == [f EXCEPT ![temp_path] = Absent]

\* os.rename(temp_path, path): the temp file replaces the state file.
os_rename(f) == [f EXCEPT !["state"] = f[temp_path], ![temp_path] = Absent]

\* ------------------------------------------------------------------------
\* State store: operations of State
\* ------------------------------------------------------------------------
Op(nm, n, a) == [name |-> nm, target |-> n, arg |-> a, phase |-> 1]
NoOp == Op("init", "", "")

Remove(m, n) == [k \in (DOMAIN m) \ {n} |-> m[k]]
Put(m, n, v) == [k \in (DOMAIN m) \cup {n} |-> IF k = n THEN v ELSE m[k]]

\* datetime.now() at a call: the clock may have moved since the last call.
Nows == {clock, clock + 1}

\* _save followed by the start of write_state_file: stamp updated_at, encode
\* the document (TypeError leaves the call before any file is touched),
\* then go on to mkstemp.
_save(d, now) ==
    LET nd == [d EXCEPT !.updated_at = now] IN
    /\ data' = nd
    /\ clock' = now
    /\ IF Serializable(nd)
       THEN /\ content' = nd
            /\ spc' = "mkstemp"
            /\ UNCHANGED last_result
       ELSE /\ spc' = "idle"
            /\ last_result' = "raised"
            /\ UNCHANGED content

Return_stamped(r, now) ==
    /\ spc' = "idle"
    /\ last_result' = r
    /\ data' = [data EXCEPT !.updated_at = now + 1]
    /\ UNCHANGED <<content, clock>>

\* The call returns without writing (and without reading the clock).
Return(r, now) ==
    /\ spc' = "idle"
    /\ last_result' = r
    /\ UNCHANGED <<data, content, clock>>

Call(o) ==
    /\ spc = "idle" /\ nops < MaxOps
    /\ sop' = o
    /\ nops' = nops + 1
    /\ UNCHANGED <<fs, orphans, notStore>>

add_host ==
    \E n \in Names, a \in Addresses \cup {None}, now \in Nows :
        /\ Call(Op("add_host", n, a))
        /\ _save([data EXCEPT !.hosts = Put(data.hosts, n,
                    [ansible_host |-> IF a = None THEN n ELSE a, added_at |-> now])], now)

remove_host ==
    \E n \in Names, now \in Nows :
        /\ Call(Op("remove_host", n, ""))
        /\ IF n \in DOMAIN data.hosts
           THEN _save([data EXCEPT !.hosts = Remove(data.hosts, n)], now)
           ELSE Return("False", now)

add_resource ==
    \E n \in Names, p \in Providers, now \in Nows :
        /\ Call(Op("add_resource", n, p))
        /\ _save([data EXCEPT !.resources = Put(data.resources, n,
                    [created_at |-> now, provider |-> p, last_seen |-> NoTime])], now)

update_resource ==
    \E n \in Names, p \in {"aws"}, now \in Nows :
        /\ Call(Op("update_resource", n, p))
        /\ IF n \notin DOMAIN data.resources
           THEN Return("False", now)
           ELSE _save([data EXCEPT !.resources[n].provider = p,
                                   !.resources[n].last_seen = now], now)

remove_resource ==
    \E n \in Names, now \in Nows :
        /\ Call(Op("remove_resource", n, ""))
        /\ IF n \in DOMAIN data.resources
           THEN _save([data EXCEPT !.resources = Remove(data.resources, n)], now)
           ELSE Return("False", now)

\* remove: remove_host, then remove_resource.  When the host is not there the
\* call goes straight on to remove_resource (phase 2).
remove ==
    \E n \in Names, now \in Nows :
        /\ spc = "idle" /\ nops < MaxOps
        /\ nops' = nops + 1
        /\ UNCHANGED <<fs, orphans, notStore>>
        /\ IF n \in DOMAIN data.hosts
           THEN /\ sop' = Op("remove", n, "")
                /\ _save([data EXCEPT !.hosts = Remove(data.hosts, n)], now)
           ELSE /\ sop' = [Op("remove", n, "") EXCEPT !.phase = 2]
                /\ IF n \in DOMAIN data.resources
                   THEN _save([data EXCEPT !.resources = Remove(data.resources, n)], now)
                   ELSE Return("False", now)

\* ------------------------------------------------------------------------
\* State store: the steps of write_state_file
\* ------------------------------------------------------------------------
Step(from, to) ==
    /\ spc = from
    /\ spc' = to
    /\ UNCHANGED <<data, sop, content, last_result, clock, nops, orphans, notStore>>

\* mkstemp creates the empty temp file.
write_mkstemp ==
    /\ Step("mkstemp", "write")
    /\ fs' = [fs EXCEPT ![temp_path] = EmptyFile]

\* mkstemp raises (directory not writable, disk full): no temp file, the
\* exception leaves the call.
write_mkstemp_fails ==
    /\ spc = "mkstemp"
    /\ spc' = "idle"
    /\ last_result' = "raised"
    /\ UNCHANGED <<data, fs, orphans, sop, content, clock, nops, notStore>>

\* f.write: part of the text has reached the file.
write_text ==
    /\ Step("write", "flush")
    /\ fs' = [fs EXCEPT ![temp_path] = File("partial", content)]

\* The newline, f.flush(): the whole text is in the file.
write_flush ==
    /\ Step("flush", "fsync")
    /\ fs' = [fs EXCEPT ![temp_path] = File("full", content)]

write_fsync ==
    /\ Step("fsync", "rename")
    /\ UNCHANGED fs

\* os.rename, and the return to the caller.  remove goes on to
\* remove_resource after remove_host has saved.
write_rename ==
    /\ spc = "rename"
    /\ fs' = os_rename(fs)
    /\ UNCHANGED <<orphans, nops, notStore>>
    /\ IF sop.name = "remove" /\ sop.phase = 1
       THEN /\ sop' = [sop EXCEPT !.phase = 2]
            /\ \E now \in Nows :
                IF sop.target \in DOMAIN data.resources
                THEN _save([data EXCEPT !.resources = Remove(data.resources, sop.target)], now)
                ELSE Return("ok", now)
       ELSE /\ spc' = "idle"
            /\ last_result' = "ok"
            /\ UNCHANGED <<data, sop, content, clock>>

\* An exception inside the try block (write, flush, fsync or rename fails):
\* the temp file is unlinked, unless unlink fails too, and the exception is
\* raised again.
write_except ==
    /\ spc \in {"write", "flush", "fsync", "rename"}
    /\ spc' = "idle"
    /\ last_result' = "raised"
    /\ \E unlinked \in BOOLEAN :
        /\ fs' = [fs EXCEPT ![temp_path] = Absent]
        /\ orphans' = IF unlinked THEN orphans ELSE orphans + 1
    /\ UNCHANGED <<data, sop, content, clock, nops, notStore>>

\* The process dies (kill, power loss) at any point.
Crash ==
    /\ spc # "crashed"
    /\ nops < MaxOps
    /\ spc' = "crashed"
    /\ UNCHANGED <<data, fs, orphans, sop, content, last_result, clock, nops, notStore>>

\* A new process: State(path) reads the file.  A temp file the dead process
\* left stays in the directory.
Restart ==
    /\ spc = "crashed"
    /\ \E now \in Nows :
        /\ data' = read_state_file(fs["state"], now)
        /\ clock' = now
    /\ fs' = [fs EXCEPT ![temp_path] = Absent]
    /\ orphans' = IF fs[temp_path].kind = "absent" THEN orphans ELSE orphans + 1
    /\ spc' = "idle"
    /\ sop' = NoOp
    /\ last_result' = "none"
    /\ nops' = nops + 1
    /\ UNCHANGED <<content, notStore>>

StoreNext ==
    \/ add_host
    \/ remove_host
    \/ add_resource
    \/ update_resource
    \/ remove_resource
    \/ remove
    \/ write_mkstemp
    \/ write_mkstemp_fails
    \/ write_text
    \/ write_flush
    \/ write_fsync
    \/ write_rename
    \/ write_except
    \/ Crash
    \/ Restart

\* ------------------------------------------------------------------------
\* Executor: ModuleExecutor.run and _execute_chunk
\* ------------------------------------------------------------------------
\* ModuleExecutor.__init__(chunk_size=10)
default_chunk_size == 10

Min(a, b) == IF a < b THEN a ELSE b

chunk_off_by_one(i, n, len) == { h \in 1..len : i < h /\ h <= i + n + 1 }

\* chunk(lst, n) at offset i: the hosts lst[i : i + n] (hosts are numbered
\* from 1, offsets from 0).
chunk(i, n, len) == { h \in 1..len : i < h /\ h <= i + n }

return_exceptions_off == FALSE

\* asyncio.gather(..., return_exceptions=True)
return_exceptions == TRUE

\* How runner.run can end for a host: a ModuleResult with success, a
\* ModuleResult that reports failure, or an exception.
Outcomes == {"ok", "failed", "exception"}

\* Lines 146-159: the ModuleResult stored for a finished task.
extract_result(h, outcome) ==
    IF outcome = "exception"
    THEN [host_name |-> h, success |-> FALSE, error |-> "str(e)"]
    ELSE [host_name |-> h, success |-> (outcome = "ok"), error |-> "None"]

ExecutionResults_defaults(results) ==
    [total_hosts |-> 0, successful |-> 0, failed |-> 0]

\* ExecutionResults.__post_init__
ExecutionResults(results) ==
    LET ok == { h \in DOMAIN results : results[h].success } IN
    IF DOMAIN results = {}
    THEN [total_hosts |-> 0, successful |-> 0, failed |-> 0]
    ELSE [total_hosts |-> Cardinality(DOMAIN results),
          successful |-> Cardinality(ok),
          failed |-> Cardinality(DOMAIN results) - Cardinality(ok)]

NoSummary == [total_hosts |-> -1, successful |-> -1, failed |-> -1]

Running == { h \in 1..nhosts : tasks[h] = "running" }

\* The for loop of run takes the next chunk; _execute_chunk creates one task
\* per host of it.
run_chunk ==
    /\ epc = "loop" /\ next_i < nhosts
    /\ tasks' = [h \in 1..nhosts |->
                    IF h \in chunk(next_i, chunk_size, nhosts) THEN "running" ELSE tasks[h]]
    /\ epc' = "gather"
    /\ UNCHANGED <<chunk_size, nhosts, next_i, all_results, summary, notExec>>

\* runner.run(host, context) ends for one host.
runner_run ==
    /\ epc = "gather"
    /\ \E h \in Running, o \in Outcomes :
        tasks' = [tasks EXCEPT ![h] = o]
    /\ UNCHANGED <<chunk_size, nhosts, epc, next_i, all_results, summary, notExec>>

execute_chunk_done_first_completed ==
    /\ epc = "gather" /\ \E h \in chunk(next_i, chunk_size, nhosts) : h \notin Running
    /\ LET hs == chunk(next_i, chunk_size, nhosts) IN
       IF ~return_exceptions /\ \E h \in hs : tasks[h] = "exception"
       THEN /\ epc' = "raised"
            /\ UNCHANGED <<all_results, next_i>>
       ELSE /\ all_results' = [h \in (DOMAIN all_results) \cup hs |->
                                 IF h \in hs THEN extract_result(h, tasks[h])
                                 ELSE all_results[h]]
            /\ next_i' = next_i + chunk_size
            /\ epc' = "loop"
    /\ UNCHANGED <<chunk_size, nhosts, tasks, summary, notExec>>

\* gather returns when every task of the chunk has ended; the results are
\* extracted and merged into all_results, and the loop goes on.
execute_chunk_done ==
    /\ epc = "gather" /\ Running = {}
    /\ LET hs == chunk(next_i, chunk_size, nhosts) IN
       IF ~return_exceptions /\ \E h \in hs : tasks[h] = "exception"
       THEN /\ epc' = "raised"
            /\ UNCHANGED <<all_results, next_i>>
       ELSE /\ all_results' = [h \in (DOMAIN all_results) \cup hs |->
                                 IF h \in hs THEN extract_result(h, tasks[h])
                                 ELSE all_results[h]]
            /\ next_i' = next_i + chunk_size
            /\ epc' = "loop"
    /\ UNCHANGED <<chunk_size, nhosts, tasks, summary, notExec>>

\* The loop is over: return ExecutionResults(results=all_results).
run_return ==
    /\ epc = "loop" /\ next_i >= nhosts
    /\ summary' = ExecutionResults(all_results)
    /\ epc' = "done"
    /\ UNCHANGED <<chunk_size, nhosts, next_i, tasks, all_results, notExec>>

ExecNext ==
    \/ run_chunk
    \/ runner_run
    \/ execute_chunk_done
    \/ run_return

\* ------------------------------------------------------------------------
\* Argument resolver: merge_arguments
\* ------------------------------------------------------------------------
Keys == {"src", "dest"}
HostNames == {"web1", "web2"}

Lit(v) == [kind |-> "lit", v |-> v]
Ref(p) == [kind |-> "ref", v |-> p]
\* A list value whose item is Ref(p).
ListOf(p) == [kind |-> "list", v |-> p]
ResolutionFailed == [kind |-> "raise", v |-> "ResolutionFailed"]

\* The field chain of a Ref.
RefPath(p) ==
    CASE p = "config.dest_dir" -> <<"config", "dest_dir">>
      [] p = "config.missing" -> <<"config", "missing">>

\* HostConfig.vars of the hosts.
HostVars(h) ==
    IF h = "web1"
    THEN [config |-> [dest_dir |-> Lit("/opt/app")]]
    ELSE [other |-> [dest_dir |-> Lit("/srv")]]

Dicts(vals) == UNION { [ks -> vals] : ks \in SUBSET Keys }
NoDict == [k \in {} |-> k]

\* An optional dict: None, or the dict d.
Opt(isnone, d) == [isnone |-> isnone, d |-> d]
Truthy(o) == ~o.isnone /\ DOMAIN o.d # {}

RECURSIVE walk(_, _)
walk(value, path) ==
    IF path = <<>> THEN value
    ELSE IF Head(path) \in DOMAIN value THEN walk(value[Head(path)], Tail(path))
    ELSE ResolutionFailed

\* deref(host.vars, value): a Ref is looked up along its chain, a missing
\* link is a resolution error; any other value is returned as it is.
deref(hostvars, value) ==
    IF value.kind = "ref" THEN walk(hostvars, RefPath(value.v)) ELSE value

\* has_refs: some value of the dict is a Ref.
has_refs(args) ==
    IF ~Truthy(args) THEN FALSE
    ELSE \E k \in DOMAIN args.d : args.d[k].kind = "ref"

update_keeps_existing(merged, hs) ==
    [k \in (DOMAIN merged) \cup (DOMAIN hs) |->
        IF k \in DOMAIN merged THEN merged[k] ELSE hs[k]]

\* dict.update: the keys of hs replace those of merged.
update(merged, hs) ==
    [k \in (DOMAIN merged) \cup (DOMAIN hs) |->
        IF k \in DOMAIN hs THEN hs[k] ELSE merged[k]]

Returned(d) == [kind |-> "dict", d |-> d]
Raised == [kind |-> "raise", d |-> NoDict]

merge_arguments(host, module_args, host_args) ==
    LET host_specific_args ==
            IF Truthy(host_args) /\ host.name \in DOMAIN host_args.d
            THEN host_args.d[host.name] ELSE NoDict
        has_refs_in_args == has_refs(module_args)
        resolved ==
            IF ~Truthy(module_args) THEN NoDict
            ELSE IF has_refs_in_args
                 THEN [k \in DOMAIN module_args.d |-> deref(host.vars, module_args.d[k])]
                 ELSE module_args.d
    IN
    IF host_specific_args = NoDict /\ ~has_refs_in_args
    THEN Returned(IF Truthy(module_args) THEN module_args.d ELSE NoDict)
    ELSE IF \E k \in DOMAIN resolved : resolved[k] = ResolutionFailed
         THEN Raised
         ELSE Returned(update(resolved, host_specific_args))

dict_copy_alias(d) == [obj |-> "module_args", d |-> d]

\* module_args.copy(): a new dict with the same items.
dict_copy(d) == [obj |-> "new", d |-> d]

\* What the caller's module_args holds when merge_arguments has returned.  The
\* only writes are the item assignments and the update on merged_args (lines
\* 106-114); they reach module_args only if merged_args is that same object.
module_args_after(host, module_args, host_args) ==
    LET r == merge_arguments(host, module_args, host_args)
        slow_path == r.kind = "raise" \/ has_refs(module_args)
                        \/ (Truthy(host_args) /\ host.name \in DOMAIN host_args.d
                                /\ host_args.d[host.name] # NoDict)
    IN
    IF slow_path /\ Truthy(module_args) /\ r.kind = "dict"
          /\ dict_copy(module_args.d).obj = "module_args"
    THEN Opt(FALSE, r.d)
    ELSE module_args

\* host_args and its inner dicts are only read (get, and the argument of
\* update); host is only read.
merge_call ==
    /\ ~m_done
    /\ m_result' = merge_arguments(m_host, m_module_args, m_host_args)
    /\ m_module_args' = module_args_after(m_host, m_module_args, m_host_args)
    /\ m_done' = TRUE
    /\ UNCHANGED <<m_host, m_host_args, notMerge>>

MergeNext ==
    \/ merge_call

\* ------------------------------------------------------------------------
\* Gate: inputs
\* ------------------------------------------------------------------------
\* Names a Module frame may ask for; Bundle is the catalog packed in the gate.
ModuleNames == {"ping", "absent"}
Bundle == {"ping"}

Msg(t, d, n, i, r) == [type |-> t, isdict |-> d, module_name |-> n, inline |-> i, run |-> r]

\* The frames the controller may send.  isdict: the body is a JSON object.
\* inline: the frame carries the module bytes.  run: what running the module
\* does ("ok", raises an Exception, or returns a value json cannot encode).
Frames ==
    { Msg(t, TRUE, "", FALSE, "ok") : t \in {"Hello", "Shutdown", "Bogus"} }
    \cup { Msg(t, FALSE, "", FALSE, "ok") : t \in {"Module", "FTLModule"} }
    \cup { Msg("Module", TRUE, n, i, r) :
             n \in ModuleNames, i \in BOOLEAN, r \in {"ok", "raise"} }
    \cup { Msg("FTLModule", TRUE, "ping", TRUE, r) :
             r \in {"ok", "unserializable", "raise"} }

NoReq == 0

\* protocol.send_message: one frame appended to stdout.  req is the index of
\* the request being served when the frame is written (NoReq: none).
send_message(o, t, req) == Append(o, [type |-> t, req |-> req])

RECURSIVE send_all(_, _, _)
send_all(o, ts, req) ==
    IF ts = <<>> THEN o ELSE send_all(send_message(o, Head(ts), req), Tail(ts), req)

\* ------------------------------------------------------------------------
\* Gate: execute_module / execute_ftl_module
\* ------------------------------------------------------------------------
load_module_any_name(f) ==
    IF f.inline THEN "loaded"
    ELSE IF HAS_FTL_GATE THEN "loaded" ELSE "ModuleNotFoundError"

\* Lines 213-235: where the module bytes come from.
load_module(f) ==
    IF f.inline THEN "loaded"
    ELSE IF HAS_FTL_GATE
         THEN (IF f.module_name \in Bundle THEN "loaded" ELSE "ModuleNotFoundError")
         ELSE "ModuleNotFoundError"

\* execute_module: "ModuleResult" when the result frame was sent, otherwise the
\* exception that leaves the coroutine.
execute_module_outcome(f) ==
    IF load_module(f) = "ModuleNotFoundError" THEN "ModuleNotFoundError"
    ELSE IF f.run = "raise" THEN "Exception"
    ELSE "ModuleResult"

module_reply_dropped(f) ==
    CASE execute_module_outcome(f) = "ModuleResult" -> <<"ModuleResult">>
      [] execute_module_outcome(f) = "ModuleNotFoundError" -> <<>>
      [] OTHER -> <<"Error">>

\* The frames written for a Module request with an object body: the result
\* sent by execute_module, or the frame of the except clause of main that
\* catches what execute_module raised.
module_reply(f) ==
    CASE execute_module_outcome(f) = "ModuleResult" -> <<"ModuleResult">>
      [] execute_module_outcome(f) = "ModuleNotFoundError" -> <<"ModuleNotFound">>
      [] OTHER -> <<"Error">>

\* The frames written by execute_ftl_module.  A result json cannot encode makes
\* send_message raise before anything is written; the except clause then
\* sends Error.
ftl_reply(f) ==
    CASE f.run = "ok" -> <<"FTLModuleResult">>
      [] f.run = "unserializable" -> <<"Error">>
      [] OTHER -> <<"Error">>

\* ------------------------------------------------------------------------
\* Gate: the message loop of main
\* ------------------------------------------------------------------------
GateReadyNoAwait == gate_ret = "running"

\* The loop is at read_message: main awaits execute_module and
\* execute_ftl_module, so it is not while one of them is running.
GateReady == gate_ret = "running" /\ inflight = {}

shutdown_ret_continue == "running"

\* Line 496: return None after Goodbye.
shutdown_ret == "None"

\* sys.exit(exit_code or 0)
ExitCode(ret) == IF ret = "1" THEN 1 ELSE 0

Receive(f) == received' = Append(received, f)
ThisReq == Len(received) + 1

\* read_message returned None (lines 424-430).
main_EOF ==
    /\ GateReady
    /\ out' = send_message(out, "Goodbye", NoReq)
    /\ gate_ret' = "None"
    /\ UNCHANGED <<HAS_FTL_GATE, received, inflight, notGate>>

\* read_message raised (bad header, truncated frame, bad JSON): lines 513-529.
main_ReadError ==
    /\ GateReady
    /\ out' = send_message(out, "GateSystemError", NoReq)
    /\ gate_ret' = "1"
    /\ UNCHANGED <<HAS_FTL_GATE, received, inflight, notGate>>

main_Hello ==
    /\ GateReady /\ Len(received) < MaxFrames
    /\ \E f \in Frames :
        /\ f.type = "Hello"
        /\ Receive(f)
        /\ out' = send_message(out, "Hello", ThisReq)
    /\ UNCHANGED <<HAS_FTL_GATE, inflight, gate_ret, notGate>>

\* Module / FTLModule with an object body: the loop awaits the coroutine.
main_Module ==
    /\ GateReady /\ Len(received) < MaxFrames
    /\ \E f \in Frames :
        /\ f.type = "Module" /\ f.isdict
        /\ Receive(f)
        /\ inflight' = inflight \cup {ThisReq}
    /\ UNCHANGED <<HAS_FTL_GATE, out, gate_ret, notGate>>

main_FTLModule ==
    /\ GateReady /\ Len(received) < MaxFrames
    /\ \E f \in Frames :
        /\ f.type = "FTLModule" /\ f.isdict
        /\ Receive(f)
        /\ inflight' = inflight \cup {ThisReq}
    /\ UNCHANGED <<HAS_FTL_GATE, out, gate_ret, notGate>>

main_NotADict_keeps_serving ==
    /\ GateReady /\ Len(received) < MaxFrames
    /\ \E f \in Frames :
        /\ f.type \in {"Module", "FTLModule"} /\ ~f.isdict
        /\ Receive(f)
        /\ out' = send_message(out, "GateSystemError", ThisReq)
        /\ gate_ret' = gate_ret
    /\ UNCHANGED <<HAS_FTL_GATE, inflight, notGate>>

\* Lines 441 and 477: data.get(...) is evaluated for the log line before the
\* isinstance check, so a body that is not an object raises AttributeError,
\* which the outer except Exception turns into GateSystemError and return 1.
main_NotADict ==
    /\ GateReady /\ Len(received) < MaxFrames
    /\ \E f \in Frames :
        /\ f.type \in {"Module", "FTLModule"} /\ ~f.isdict
        /\ Receive(f)
        /\ out' = send_message(out, "GateSystemError", ThisReq)
        /\ gate_ret' = "1"
    /\ UNCHANGED <<HAS_FTL_GATE, inflight, notGate>>

main_Shutdown ==
    /\ GateReady /\ Len(received) < MaxFrames
    /\ \E f \in Frames :
        /\ f.type = "Shutdown"
        /\ Receive(f)
        /\ out' = send_message(out, "Goodbye", ThisReq)
        /\ gate_ret' = shutdown_ret
    /\ UNCHANGED <<HAS_FTL_GATE, inflight, notGate>>

main_Unknown_fatal ==
    /\ GateReady /\ Len(received) < MaxFrames
    /\ \E f \in Frames :
        /\ f.type \notin {"Hello", "Module", "FTLModule", "Shutdown"}
        /\ Receive(f)
        /\ out' = send_message(out, "Error", ThisReq)
        /\ gate_ret' = "1"
    /\ UNCHANGED <<HAS_FTL_GATE, inflight, notGate>>

\* Lines 498-502: any other message type is answered with Error and the
\* loop goes on.
main_Unknown ==
    /\ GateReady /\ Len(received) < MaxFrames
    /\ \E f \in Frames :
        /\ f.type \notin {"Hello", "Module", "FTLModule", "Shutdown"}
        /\ Receive(f)
        /\ out' = send_message(out, "Error", ThisReq)
    /\ UNCHANGED <<HAS_FTL_GATE, inflight, gate_ret, notGate>>

\* The awaited execute_module finishes: its result frame, or the frame of the
\* except clause of main (lines 449-474).
execute_module ==
    /\ gate_ret = "running"
    /\ \E r \in inflight :
        /\ received[r].type = "Module"
        /\ out' = send_all(out, module_reply(received[r]), r)
        /\ inflight' = inflight \ {r}
    /\ UNCHANGED <<HAS_FTL_GATE, received, gate_ret, notGate>>

execute_ftl_module ==
    /\ gate_ret = "running"
    /\ \E r \in inflight :
        /\ received[r].type = "FTLModule"
        /\ out' = send_all(out, ftl_reply(received[r]), r)
        /\ inflight' = inflight \ {r}
    /\ UNCHANGED <<HAS_FTL_GATE, received, gate_ret, notGate>>

GateNext ==
    \/ main_EOF
    \/ main_ReadError
    \/ main_Hello
    \/ main_Module
    \/ main_FTLModule
    \/ main_NotADict
    \/ main_Shutdown
    \/ main_Unknown
    \/ execute_module
    \/ execute_ftl_module

\* ------------------------------------------------------------------------
\* Local module runner: LocalModuleRunner.run
\* ------------------------------------------------------------------------
\* What a module printed (raw) and what it is: a JSON object, which carries
\* (or not) the fields failed, changed and stdout; JSON that is not an
\* object; text that is not JSON; or bytes that are not UTF-8.
Flags == {"absent", "true", "false"}
Output(kind, failed, changed, stdout, raw) ==
    [kind |-> kind, failed |-> failed, changed |-> changed, stdout |-> stdout, raw |-> raw]
Object(failed, changed) == Output("object", failed, changed, "absent", "{...}")
EmptyOutput == Object("absent", "absent")
NotAnObject == Output("list", "absent", "absent", "absent", "[1, 2]")
NotJSON == Output("text", "absent", "absent", "absent", "hello")
NoiseThenJSON == Output("text", "absent", "absent", "absent", "warning {...}")
NotUTF8 == Output("bytes", "absent", "absent", "absent", "0xff")
Stdouts ==
    { Object(f, c) : f \in Flags, c \in Flags }
      \cup {NotAnObject, NotJSON, NoiseThenJSON, NotUTF8}

\* The three ways run executes a module file.
Styles == {"want_json", "new_style", "binary"}

\* What find_module returns: None, or the path of a module that, when run,
\* raises (the subprocess cannot be started, the arguments cannot be encoded)
\* or prints stdout.
Module(style, raises, stdout) ==
    [found |-> TRUE, style |-> style, raises |-> raises, stdout |-> stdout]
NotFound == [found |-> FALSE, style |-> "none", raises |-> FALSE, stdout |-> NotJSON]
Modules ==
    {NotFound}
      \cup { Module(s, TRUE, NotJSON) : s \in Styles }
      \cup { Module(s, FALSE, o) : s \in Styles, o \in Stdouts }

RunnerHosts == {"localhost", "web01"}

\* ModuleResult.success_result / ModuleResult.error_result
success_result(host_name, output, changed) ==
    [host_name |-> host_name, success |-> TRUE, changed |-> changed,
     output |-> output, error |-> "None"]
error_result(host_name, error) ==
    [host_name |-> host_name, success |-> FALSE, changed |-> FALSE,
     output |-> EmptyOutput, error |-> error]
NoResult == error_result("", "None")

parse_result_drops_text(result_data) ==
    IF result_data.kind = "text" THEN EmptyOutput ELSE result_data

\* Lines 215-221: json.loads of the text; text that is not JSON becomes
\* {"stdout": text}.
parse_result(result_data) ==
    IF result_data.kind = "text"
    THEN Output("object", "absent", "absent", result_data.raw, result_data.raw)
    ELSE result_data

\* LocalModuleRunner.run.  stdout.decode() of bytes that are not UTF-8 raises
\* UnicodeDecodeError, and output.get on a value that is not a dict raises
\* AttributeError; the except clause turns both into an error result like
\* any other exception.
LocalModuleRunner_run(host_name, module) ==
    IF ~module.found
    THEN error_result(host_name, "Module not found")
    ELSE IF module.raises \/ module.stdout.kind = "bytes"
    THEN error_result(host_name, "Execution failed")
    ELSE LET output == parse_result(module.stdout) IN
         IF output.kind # "object"
         THEN error_result(host_name, "Execution failed")
         ELSE success_result(host_name, output, output.changed = "true")

local_run ==
    /\ ~r_done
    /\ r_result' = LocalModuleRunner_run(r_host, r_module)
    /\ r_done' = TRUE
    /\ UNCHANGED <<r_host, r_module, notRunner>>

RunnerNext ==
    \/ local_run

\* ------------------------------------------------------------------------
\* Module proxies: ftl.<module>(...), ftl.<host>.<module>(...)
\* ------------------------------------------------------------------------
\* A module path: the namespace ("" for a short name) and the module name.
Path(ns, name) == [ns |-> ns, name |-> name]

ShadowedNames == {"wait_for_connection", "ping", "copy", "template", "fetch"}

\* SHADOWED_MODULES: module name -> method name on HostScopedProxy.
SHADOWED_MODULES ==
    [p \in { Path(ns, n) : ns \in {"", "ansible.builtin"}, n \in ShadowedNames } |->
        IF p.name = "wait_for_connection" THEN "wait_for_ssh" ELSE p.name]

is_shadowed(module_name) == module_name \in DOMAIN SHADOWED_MODULES
get_native_method(module_name) == SHADOWED_MODULES[module_name]

\* The methods class HostScopedProxy defines.
HostScopedProxyMethods == {"wait_for_ssh", "ping"}

\* get_excluded(module_path) of ftl2.module_loading.excluded: the modules FTL2
\* refuses to run.
Excluded == {Path("ansible.builtin", "pause")}
get_excluded(module_path) == module_path \in Excluded

ModulePaths ==
    DOMAIN SHADOWED_MODULES
      \cup Excluded
      \cup {Path("", "file"), Path("", "wait_for_ssh"), Path("amazon.aws", "ec2_instance")}

Targets == {"local", "localhost", "web01", "webservers"}

\* ftl.<target>.<path>(...) and ftl.<path>(...); known: get_module(name) finds
\* an FTL module of that short name.
Host(target, path) == [via |-> "host", target |-> target, path |-> path, known |-> FALSE]
Top(path, known) == [via |-> "top", target |-> "localhost", path |-> path, known |-> known]
Calls ==
    { Host(t, p) : t \in Targets, p \in ModulePaths }
      \cup { Top(p, k) : p \in ModulePaths, k \in BOOLEAN }

\* sys.getrecursionlimit(), scaled down.
RecursionLimit == 3

Pending == [kind |-> "pending", name |-> Path("", ""), target |-> ""]
Native(method, target) == [kind |-> "native", name |-> Path("", method), target |-> target]
execute(path) == [kind |-> "execute", name |-> path, target |-> "localhost"]
run_on(target, path) == [kind |-> "run_on", name |-> path, target |-> target]
ExcludedModuleError(path) == [kind |-> "ExcludedModuleError", name |-> path, target |-> ""]
RecursionError == [kind |-> "RecursionError", name |-> Path("", ""), target |-> ""]

Done(outcome) ==
    /\ d_pc' = "done"
    /\ d_outcome' = outcome
    /\ UNCHANGED <<d_call, d_path, d_depth, notDispatch>>

\* The target a HostScopedProxy made by ModuleProxy.__getattr__ carries.
proxy_target == IF d_call.target = "local" THEN "localhost" ELSE d_call.target

\* ModuleProxy.__getattr__: a host or group name gives a HostScopedProxy, a
\* known short module name the wrapper, anything else a NamespaceProxy.
ModuleProxy_getattr ==
    /\ d_pc = "ModuleProxy"
    /\ d_pc' = IF d_call.via = "host" THEN "HostScopedProxy"
               ELSE IF d_call.path.ns = "" /\ d_call.known THEN "wrapper"
               ELSE "NamespaceProxy"
    /\ d_path' = d_call.path
    /\ UNCHANGED <<d_call, d_depth, d_outcome, notDispatch>>

\* Attribute access on HostScopedProxy: a method of the class is found first
\* and called; any other name goes to __getattr__, which makes a
\* HostScopedModuleProxy (further attributes extend its path).
HostScopedProxy_getattr ==
    /\ d_pc = "HostScopedProxy"
    /\ IF d_path.ns = "" /\ d_path.name \in HostScopedProxyMethods
       THEN Done(Native(d_path.name, proxy_target))
       ELSE /\ d_pc' = "HostScopedModuleProxy"
            /\ d_depth' = d_depth + 1
            /\ UNCHANGED <<d_call, d_path, d_outcome, notDispatch>>

\* HostScopedModuleProxy.__call__.  getattr(host_proxy, method_name) gives the
\* bound method when the class has it; otherwise __getattr__ answers with a
\* new HostScopedModuleProxy for method_name, and awaiting it is one more
\* __call__ on the stack.
HostScopedModuleProxy_call ==
    /\ d_pc = "HostScopedModuleProxy"
    /\ IF is_shadowed(d_path)
       THEN LET method_name == get_native_method(d_path) IN
            IF method_name \in HostScopedProxyMethods
            THEN Done(Native(method_name, proxy_target))
            ELSE IF d_depth >= RecursionLimit
            THEN Done(RecursionError)
            ELSE /\ d_path' = Path("", method_name)
                 /\ d_depth' = d_depth + 1
                 /\ UNCHANGED <<d_call, d_pc, d_outcome, notDispatch>>
       ELSE IF get_excluded(d_path) THEN Done(ExcludedModuleError(d_path))
       ELSE IF proxy_target \in {"local", "localhost"} THEN Done(execute(d_path))
       ELSE Done(run_on(proxy_target, d_path))

\* NamespaceProxy.__call__
NamespaceProxy_call ==
    /\ d_pc = "NamespaceProxy"
    /\ IF get_excluded(d_path) THEN Done(ExcludedModuleError(d_path))
       ELSE Done(execute(d_path))

\* The wrapper ModuleProxy.__getattr__ returns for a known module.
wrapper ==
    /\ d_pc = "wrapper"
    /\ IF get_excluded(d_path) THEN Done(ExcludedModuleError(d_path))
       ELSE Done(execute(d_path))

DispatchNext ==
    \/ ModuleProxy_getattr
    \/ HostScopedProxy_getattr
    \/ HostScopedModuleProxy_call
    \/ NamespaceProxy_call
    \/ wrapper

\* ------------------------------------------------------------------------
\* Safety checks: check_command_safety, check_module_args_safety
\* ------------------------------------------------------------------------
\* A command is its words, written with one blank between them.
MaxWords == 4
Words == {"rm", "-rf", "-fr", "/", "/*", "/etc", "/tmp/x", "ls", ";",
          "dd", "of=/dev/sda", ":(){ :|:& };:"}
Commands == UNION { [1..n -> Words] : n \in 0..MaxWords }

\* The words in which a text of SAFE_PATHS ("/tmp/", "/var/tmp/", "/dev/shm/")
\* occurs.
SAFE_PATHS == {"/tmp/x"}

\* BLOCKED_PATTERNS, on words.  \brm\s+-rf\s+/\s*$ is rm, -rf and / as the
\* last three words; \brm\s+-rf\s+/\* is rm, -rf and a word that starts with
\* /*; the fork bomb is one word; \bdd\s+.*of=/dev/[sh]d[a-z]\b is dd with a
\* later word of=/dev/sda.
rm_rf_root(cmd) ==
    \E i \in 1..Len(cmd) :
        /\ i + 2 = Len(cmd)
        /\ cmd[i] = "rm" /\ cmd[i+1] = "-rf" /\ cmd[i+2] = "/"
rm_rf_root_star(cmd) ==
    \E i \in 1..Len(cmd) :
        /\ i + 2 <= Len(cmd)
        /\ cmd[i] = "rm" /\ cmd[i+1] = "-rf" /\ cmd[i+2] = "/*"
fork_bomb(cmd) == \E i \in 1..Len(cmd) : cmd[i] = ":(){ :|:& };:"
dd_raw_disk(cmd) ==
    \E i \in 1..Len(cmd), j \in 1..Len(cmd) :
        i < j /\ cmd[i] = "dd" /\ cmd[j] = "of=/dev/sda"
BLOCKED_PATTERNS(cmd) ==
    IF rm_rf_root(cmd) THEN "rm -rf /"
    ELSE IF rm_rf_root_star(cmd) THEN "rm -rf /*"
    ELSE IF fork_bomb(cmd) THEN "fork bomb"
    ELSE IF dd_raw_disk(cmd) THEN "dd writing to raw disk device"
    ELSE ""

\* DESTRUCTIVE_PATTERNS, on words: the descriptions of the patterns that
\* match.  Of the patterns only the two for rm and the one for dd can match
\* a command made of Words: rm followed by -rf or -fr, rm with -rf or -fr
\* two or more words later, dd followed by any word.
DESTRUCTIVE_PATTERNS(cmd) ==
    { "rm with force/recursive flags" : i \in
        { i \in 1..Len(cmd) :
            /\ cmd[i] = "rm"
            /\ \E j \in (i+1)..Len(cmd) : cmd[j] \in {"-rf", "-fr"} } }
      \cup
    { "dd command (can overwrite disks)" : i \in
        { i \in 1..Len(cmd) : cmd[i] = "dd" /\ i < Len(cmd) } }

\* _is_safe_path: some text of SAFE_PATHS occurs anywhere in the command.
_is_safe_path(cmd) == \E i \in 1..Len(cmd) : cmd[i] \in SAFE_PATHS

\* SafetyCheckResult()
SafetyCheckResult == [safe |-> TRUE, blocked |-> FALSE, warnings |-> {}, blocked_reason |-> ""]

check_command_safety(cmd) ==
    IF BLOCKED_PATTERNS(cmd) # ""
    THEN [safe |-> FALSE, blocked |-> TRUE, warnings |-> {},
          blocked_reason |-> BLOCKED_PATTERNS(cmd)]
    ELSE IF DESTRUCTIVE_PATTERNS(cmd) # {} /\ ~_is_safe_path(cmd)
    THEN [SafetyCheckResult EXCEPT !.safe = FALSE, !.warnings = DESTRUCTIVE_PATTERNS(cmd)]
    ELSE SafetyCheckResult

\* module_args of a dispatch: the keys the checks read ("" / <<>>: not given).
Args(cmd, raw, state, path) ==
    [cmd |-> cmd, _raw_params |-> raw, state |-> state, path |-> path]

\* The commands, module names and file paths dispatches are tried with.
SampleCommands ==
    { <<>>, <<"ls">>, <<"rm", "-rf", "/etc">>, <<"rm", "-rf", "/tmp/x">>,
      <<"rm", "-rf", "/">>, <<"dd", "of=/dev/sda">> }
SafetyModules == {"shell", "command", "script", "file", "copy"}
FilePaths == {"", "/", "/etc/passwd", "/tmp/x", "/home/u"}
ModuleArgs ==
    { Args(c, r, st, p) : c \in SampleCommands, r \in {<<>>, <<"rm", "-rf", "/etc">>},
                          st \in {"", "absent"}, p \in FilePaths }

command_like_shell_only == {"shell"}

\* Line 159: the modules whose command is scanned.
command_like == {"shell", "command", "script"}

\* path.startswith(safe) for some safe in SAFE_PATHS
starts_with_safe_path(path) == path = "/tmp/x"

\* Lines 167-178: file with state=absent.
check_file_absent(args) ==
    IF /\ args.state = "absent" /\ args.path # ""
       /\ ~starts_with_safe_path(args.path)
       /\ args.path \in {"/", "/etc/passwd"}
    THEN [SafetyCheckResult EXCEPT !.safe = FALSE, !.warnings = {"Removing file/directory"}]
    ELSE SafetyCheckResult

check_module_args_safety(module_name, module_args) ==
    LET cmd == IF module_args.cmd # <<>> THEN module_args.cmd ELSE module_args._raw_params
        cmd_result == check_command_safety(cmd)
    IN
    IF module_name \in command_like /\ cmd # <<>>
          /\ (cmd_result.blocked \/ ~cmd_result.safe)
    THEN cmd_result
    ELSE IF module_name = "file" THEN check_file_absent(module_args)
    ELSE SafetyCheckResult

\* check_command_safety(cmd) is called.
check_command ==
    /\ s_pc = "call"
    /\ s_result' = check_command_safety(s_args.cmd)
    /\ s_pc' = "checked"
    /\ UNCHANGED <<s_module, s_args, s_override, s_sent, notSafety>>

SafetyNext ==
    \/ check_command

\* The pre-flight scan of a module execution.
preflight ==
    /\ s_pc = "call"
    /\ s_result' = check_module_args_safety(s_module, s_args)
    /\ s_pc' = "checked"
    /\ UNCHANGED <<s_module, s_args, s_override, s_sent, notSafety>>

\* A blocked command is always refused, a destructive one unless the override
\* is given; a refused execution sends nothing.
refuse ==
    /\ s_pc = "checked"
    /\ s_result.blocked \/ (~s_result.safe /\ ~s_override)
    /\ s_pc' = "refused"
    /\ UNCHANGED <<s_module, s_args, s_override, s_result, s_sent, notSafety>>

send ==
    /\ s_pc = "checked"
    /\ ~s_result.blocked /\ (s_result.safe \/ s_override)
    /\ s_pc' = "sent"
    /\ s_sent' = s_sent + 1
    /\ UNCHANGED <<s_module, s_args, s_override, s_result, notSafety>>

PreflightNext ==
    \/ preflight
    \/ refuse
    \/ send

\* ------------------------------------------------------------------------
\* wait_for_ssh: the native wait_for_connection
\* ------------------------------------------------------------------------
\* The longest timeout tried.
MaxTimeout == 3

WaitParams ==
    [timeout : 1..MaxTimeout, delay : {0, 1, 2}, sleep : {1, 2}, connect_timeout : {1, 2}]

\* context.hosts: the list of HostConfig of every host name and group name
\* of the inventory; ansible_host "" is a host without an address.
WaitHost(name, ansible_host) == [name |-> name, ansible_host |-> ansible_host]
hosts_proxy ==
    [web1 |-> <<WaitHost("web1", "192.0.2.10")>>,
     web2 |-> <<WaitHost("web2", "")>>,
     webservers |-> <<WaitHost("web1", "192.0.2.10"), WaitHost("web2", "")>>,
     spares |-> <<>>]
WaitTargets == DOMAIN hosts_proxy \cup {"192.0.2.99"}

\* host_config.ansible_host or self._target
address_or(host_config, target) ==
    IF host_config.ansible_host # "" THEN host_config.ansible_host ELSE target

\* Lines 94-106: the address wait_for_ssh connects to.
ansible_host(target) ==
    IF target \in DOMAIN hosts_proxy /\ hosts_proxy[target] # <<>>
    THEN address_or(hosts_proxy[target][1], target)
    ELSE target

\* Lines 90-91: the initial delay; then start = time.monotonic().
wait_delay ==
    /\ w_pc = "delay"
    /\ w_now' = IF w_params.delay > 0 THEN w_now + w_params.delay ELSE w_now
    /\ w_start' = w_now'
    /\ w_pc' = "connect"
    /\ UNCHANGED <<w_params, w_target, w_probed, notWait>>

\* open_connection succeeds within connect_timeout: the result is returned.
connect_ok ==
    /\ w_pc = "connect"
    /\ \E d \in 0..w_params.connect_timeout : w_now' = w_now + d
    /\ w_probed' = w_probed \cup {ansible_host(w_target)}
    /\ w_pc' = "returned"
    /\ UNCHANGED <<w_params, w_start, w_target, notWait>>

\* open_connection raises OSError, or wait_for gives up after
\* connect_timeout: TimeoutError when elapsed >= timeout, else sleep.
connect_fails ==
    /\ w_pc = "connect"
    /\ \E d \in 0..w_params.connect_timeout :
        /\ w_now' = w_now + d
        /\ LET elapsed == w_now' - w_start IN
           w_pc' = IF elapsed >= w_params.timeout THEN "raised" ELSE "sleep"
    /\ w_probed' = w_probed \cup {ansible_host(w_target)}
    /\ UNCHANGED <<w_params, w_start, w_target, notWait>>

\* await asyncio.sleep(sleep), and the loop tries again.
retry_sleep ==
    /\ w_pc = "sleep"
    /\ w_now' = w_now + w_params.sleep
    /\ w_pc' = "connect"
    /\ UNCHANGED <<w_params, w_start, w_target, w_probed, notWait>>

WaitNext ==
    \/ wait_delay
    \/ connect_ok
    \/ connect_fails
    \/ retry_sleep

\* ------------------------------------------------------------------------
\* Fan-out width: ModuleExecutor(chunk_size) against safety.MAX_PARALLEL
\* ------------------------------------------------------------------------
\* safety.py: MAX_PARALLEL, the maximum allowed parallel connections.
MAX_PARALLEL == 100

\* The size of the wide inventory.
WideHosts == 102

\* The widths a caller passes to ModuleExecutor(chunk_size=...); __init__
\* stores the value as it is.
ConfiguredWidths == {default_chunk_size, MAX_PARALLEL, MAX_PARALLEL + 1}

\* runner.run ends for the tasks of a chunk in list order, with success: a
\* schedule of runner_run (neither the order nor the outcomes change how
\* many tasks are running).
runner_run_in_turn ==
    /\ epc = "gather" /\ Running # {}
    /\ LET h == CHOOSE x \in Running : \A y \in Running : x <= y IN
       tasks' = [tasks EXCEPT ![h] = "ok"]
    /\ UNCHANGED <<chunk_size, nhosts, epc, next_i, all_results, summary, notExec>>

WideNext ==
    \/ run_chunk
    \/ runner_run_in_turn
    \/ execute_chunk_done
    \/ run_return

\* ------------------------------------------------------------------------
\* Gate: module type detection (is_binary_module, is_new_style_module,
\* is_want_json_module) and the branches of execute_module
\* ------------------------------------------------------------------------
\* Module bytes are sequences of byte units: "AnsibleModule", "(" and
\* "WANT_JSON" stand for those byte strings, "x" for any other text and
\* "0xff" for a byte that is not valid UTF-8.
MaxUnits == 4
Units == {"AnsibleModule", "(", "WANT_JSON", "x", "0xff"}
ModuleBytes == UNION { [1..n -> Units] : n \in 0..MaxUnits }

\* b"..." in module
Contains(module, marker) ==
    \E i \in 0..(Len(module) - Len(marker)) :
        \A k \in 1..Len(marker) : module[i + k] = marker[k]

\* module.decode() raises UnicodeDecodeError
is_binary_module(module) == \E i \in 1..Len(module) : module[i] = "0xff"

is_new_style_module_no_paren(module) == Contains(module, <<"AnsibleModule">>)

is_new_style_module(module) == Contains(module, <<"AnsibleModule", "(">>)

is_want_json_module(module) == Contains(module, <<"WANT_JSON">>)

\* Lines 237-276 of execute_module: the if/elif chain over module_bytes.
detect_and_execute ==
    /\ c_shape = "none"
    /\ IF is_binary_module(c_module)
       THEN c_shape' = "binary" /\ c_args' = "json args file"
       ELSE IF is_new_style_module(c_module)
       THEN c_shape' = "new-style" /\ c_args' = "ANSIBLE_MODULE_ARGS json on stdin"
       ELSE IF is_want_json_module(c_module)
       THEN c_shape' = "WANT_JSON" /\ c_args' = "json args file"
       ELSE c_shape' = "old-style" /\ c_args' = "key=value args file"
    /\ UNCHANGED <<c_module, c_suffix, c_local_shape, c_local_args, notClassify>>

\* utils.module_wants_json: the text of the file holds WANT_JSON; a file
\* that is not UTF-8 does not want JSON.
module_wants_json(module) ==
    IF \E i \in 1..Len(module) : module[i] = "0xff" THEN FALSE
    ELSE Contains(module, <<"WANT_JSON">>)

\* runners.py lines 202-212: LocalModuleRunner.run picks the branch by the
\* file's suffix and, for .py, by module_wants_json.
local_detect_and_run ==
    /\ c_local_shape = "none"
    /\ IF c_suffix = ".py"
       THEN IF module_wants_json(c_module)
            THEN c_local_shape' = "WANT_JSON" /\ c_local_args' = "json args file"
            ELSE c_local_shape' = "new-style" /\ c_local_args' = "json on stdin"
       ELSE c_local_shape' = "binary" /\ c_local_args' = "key=value command line"
    /\ UNCHANGED <<c_module, c_suffix, c_shape, c_args, notClassify>>

ClassifyNext ==
    \/ detect_and_execute
    \/ local_detect_and_run

\* ------------------------------------------------------------------------
\* Runner selection: ModuleRunnerFactory.create_runner
\* ------------------------------------------------------------------------
MaxDispatch == 3

\* HostConfig: name and connection kind.
HostConfig(name, ansible_connection) ==
    [name |-> name, ansible_connection |-> ansible_connection]
HostConfigs ==
    { HostConfig(n, c) : n \in {"localhost", "build01"}, c \in {"local", "ssh"} }

\* HostConfig.is_local of ftl2.types
is_local(host) == host.ansible_connection = "local"

NoDispatch == [host |-> HostConfig("", ""), runner |-> "none"]

create_runner_by_name(host) ==
    IF host.name = "localhost" THEN "LocalModuleRunner" ELSE "RemoteModuleRunner"

\* create_runner: the class of the runner returned for host.
create_runner(host) ==
    IF is_local(host) THEN "LocalModuleRunner" ELSE "RemoteModuleRunner"

\* _execute_chunk line 135: the factory picks (and on first use creates) the
\* runner for a host.
factory_create_runner ==
    /\ f_cur = NoDispatch /\ Len(f_log) < MaxDispatch
    /\ \E host \in HostConfigs :
        LET runner == create_runner(host) IN
        /\ f_cur' = [host |-> host, runner |-> runner]
        /\ f_local_runner' = (f_local_runner \/ runner = "LocalModuleRunner")
        /\ f_remote_runner' = (f_remote_runner \/ runner = "RemoteModuleRunner")
    /\ UNCHANGED <<f_log, notFactory>>

\* LocalModuleRunner.run: the module runs as a subprocess of the controller
\* and run returns a ModuleResult.
LocalModuleRunner_serves ==
    /\ f_cur.runner = "LocalModuleRunner"
    /\ \E success \in BOOLEAN :
        f_log' = Append(f_log, [host |-> f_cur.host, runner |-> f_cur.runner,
                                transport |-> "subprocess",
                                outcome |-> IF success THEN "success" ELSE "failure"])
    /\ f_cur' = NoDispatch
    /\ UNCHANGED <<f_local_runner, f_remote_runner, notFactory>>

\* RemoteModuleRunner.run (SSH gate) raises NotImplementedError.
RemoteModuleRunner_run ==
    /\ f_cur.runner = "RemoteModuleRunner"
    /\ f_log' = Append(f_log, [host |-> f_cur.host, runner |-> f_cur.runner,
                               transport |-> "ssh gate",
                               outcome |-> "NotImplementedError"])
    /\ f_cur' = NoDispatch
    /\ UNCHANGED <<f_local_runner, f_remote_runner, notFactory>>

FactoryNext ==
    \/ factory_create_runner
    \/ LocalModuleRunner_serves
    \/ RemoteModuleRunner_run

\* ------------------------------------------------------------------------
\* Progress reporting: JsonProgressReporter, TextProgressReporter,
\* NullProgressReporter and a run that reports to one of them
\* ------------------------------------------------------------------------
ProgressHosts == 2

\* create_progress_reporter(enabled, json_format)
create_progress_reporter(enabled, json_format) ==
    IF ~enabled THEN "NullProgressReporter"
    ELSE IF json_format THEN "JsonProgressReporter"
    ELSE "TextProgressReporter"

\* Whether reporter method on_<event> calls _emit: the JSON reporter does in
\* every method, the text reporter in all but on_host_start, the null
\* reporter in none.
emits(reporter, event) ==
    CASE reporter = "JsonProgressReporter" -> TRUE
      [] reporter = "TextProgressReporter" -> event # "host_start"
      [] OTHER -> FALSE

\* _emit: print(..., file=self.output, flush=True).  The OSError of a broken
\* stream leaves _emit and the on_<event> method that called it.
emit_raises(reporter, event) == emits(reporter, event) /\ p_sink = "broken"

\* What reporter.on_<event>(...) does to the stream and to the reporter.
report(event) ==
    /\ p_written' =
         IF emits(p_reporter, event) /\ p_sink = "ok"
         THEN Append(p_written, event) ELSE p_written
    /\ p_completed' =
         IF p_reporter = "TextProgressReporter" /\ event = "host_complete"
         THEN p_completed + 1
         ELSE IF p_reporter = "TextProgressReporter" /\ event = "execution_start"
         THEN 0 ELSE p_completed

\* The run calls the reporter and goes on to next_pc; an exception of the
\* reporter ends the run.
report_then(event, next_pc) ==
    /\ report(event)
    /\ p_pc' = IF emit_raises(p_reporter, event) THEN "raised" ELSE next_pc

\* The reader of the output stream goes away (closed pipe, full disk).
sink_breaks ==
    /\ p_sink = "ok" /\ p_pc \notin {"done", "raised"}
    /\ p_sink' = "broken"
    /\ UNCHANGED <<p_reporter, p_pc, p_host, p_ran, p_results, p_written,
                   p_completed, notProgress>>

on_execution_start ==
    /\ p_pc = "execution_start"
    /\ report_then("execution_start", "host_start")
    /\ UNCHANGED <<p_reporter, p_sink, p_host, p_ran, p_results, notProgress>>

on_host_start ==
    /\ p_pc = "host_start"
    /\ report_then("host_start", "run")
    /\ UNCHANGED <<p_reporter, p_sink, p_host, p_ran, p_results, notProgress>>

\* The module runs on the host.
host_run ==
    /\ p_pc = "run"
    /\ \E o \in {"ok", "failed"} : p_ran' = [p_ran EXCEPT ![p_host] = o]
    /\ p_pc' = "host_complete"
    /\ UNCHANGED <<p_reporter, p_sink, p_host, p_results, p_written,
                   p_completed, notProgress>>

\* The host's outcome is reported and recorded.
on_host_complete ==
    /\ p_pc = "host_complete"
    /\ report_then("host_complete",
                   IF p_host < ProgressHosts THEN "host_start" ELSE "execution_complete")
    /\ IF emit_raises(p_reporter, "host_complete")
       THEN UNCHANGED <<p_results, p_host>>
       ELSE /\ p_results' = [p_results EXCEPT ![p_host] = p_ran[p_host]]
            /\ p_host' = IF p_host < ProgressHosts THEN p_host + 1 ELSE p_host
    /\ UNCHANGED <<p_reporter, p_sink, p_ran, notProgress>>

on_execution_complete ==
    /\ p_pc = "execution_complete"
    /\ report_then("execution_complete", "done")
    /\ UNCHANGED <<p_reporter, p_sink, p_host, p_ran, p_results, notProgress>>

ProgressNext ==
    \/ sink_breaks
    \/ on_execution_start
    \/ on_host_start
    \/ host_run
    \/ on_host_complete
    \/ on_execution_complete

\* ------------------------------------------------------------------------
\* State hosts into the inventory: merge_state_into_inventory
\* ------------------------------------------------------------------------
StateHostNames == {"minecraft-9", "web01"}
GroupNames == {"minecraft", "ungrouped"}

\* HostConfig as read from inventory.yml and as built from the state file:
\* they differ in ansible_host.
InventoryHost(name) == [name |-> name, ansible_host |-> "10.0.0.1"]
StateHost(name) == [name |-> name, ansible_host |-> "69.164.211.253"]

NoGroup == [exists |-> FALSE, hosts |-> <<>>]
HostGroup(hosts) == [exists |-> TRUE, hosts |-> hosts]
NoHost == [exists |-> FALSE, groups |-> {}]
HostData(groups) == [exists |-> TRUE, groups |-> groups]

\* The inventories and the state files before the merge.
Inventories ==
    [GroupNames ->
        {NoGroup} \cup { HostGroup([n \in ns |-> InventoryHost(n)]) : ns \in SUBSET StateHostNames }]
StateHosts == [StateHostNames -> {NoHost} \cup { HostData(gs) : gs \in SUBSET GroupNames }]

\* Lines 50-52: the groups of a state host, "ungrouped" when it names none.
groups_of(host_data) ==
    IF host_data.groups = {} THEN {"ungrouped"} ELSE host_data.groups

\* HostGroup.add_host: the group's hosts are kept by name.
add_host_to_group(group, host) ==
    HostGroup([n \in (DOMAIN group.hosts) \cup {host.name} |->
                  IF n = host.name THEN host ELSE group.hosts[n]])

\* Lines 60-64: the host is added only when the group has no host of its name.
add_if_missing(group, host) ==
    IF host.name \notin DOMAIN group.hosts
    THEN add_host_to_group(group, host)
    ELSE group

\* Lines 54-64 for one group name: get_group, or a new HostGroup added to the
\* inventory; then the guarded add_host.
merge_into_group(inventory, group_name, host) ==
    LET group == IF inventory[group_name].exists
                 THEN inventory[group_name] ELSE HostGroup(<<>>)
    IN  add_if_missing(group, host)

\* One iteration of the loop over state.hosts().
merge_state_host ==
    /\ \E host_name \in StateHostNames \ i_merged :
        /\ i_state[host_name].exists
        /\ i_inventory' =
             [g \in GroupNames |->
                IF g \in groups_of(i_state[host_name])
                THEN merge_into_group(i_inventory, g, StateHost(host_name))
                ELSE i_inventory[g]]
        /\ i_merged' = i_merged \cup {host_name}
    /\ UNCHANGED <<i_state, notInventory>>

InventoryNext ==
    \/ merge_state_host

\* ------------------------------------------------------------------------
\* Gate builder and cache: GateBuildConfig.compute_hash, GateBuilder.build
\* ------------------------------------------------------------------------
MaxBuilds == 2

BuildModules == {"ping", "setup"}
ModuleLists == {<<>>, <<"ping">>, <<"ping", "setup">>, <<"setup", "ping">>}
GateBuildConfig(modules, interpreter) == [modules |-> modules, interpreter |-> interpreter]
GateBuildConfigs ==
    { GateBuildConfig(ms, i) : ms \in ModuleLists, i \in {"/usr/bin/python3", "/opt/python3"} }

\* The module names of a config, as the set its sorted list stands for.
sorted_modules(config) == { config.modules[k] : k \in 1..Len(config.modules) }

compute_hash_stamped(config, files) ==
    [modules |-> sorted_modules(config), interpreter |-> config.interpreter,
     contents |-> [m \in sorted_modules(config) |-> files[m]], nonce |-> Len(b_log)]

\* The content hash: SHA-256 over the canonical serialization of the config
\* and the bytes of each resolved module.  The digest is represented by what
\* it is taken over, so different inputs never collide.
compute_hash(config, files) ==
    [modules |-> sorted_modules(config), interpreter |-> config.interpreter,
     contents |-> [m \in sorted_modules(config) |-> files[m]], nonce |-> 0]

\* <cache_dir>/gate_<hash>: the file name embeds the hash.
gate_path(hash) == [dir |-> "cache_dir", gate |-> hash]

\* The archive built for a hash: entry point plus the bundled modules.
archive(hash) == [entry |-> "__main__.py", bundled |-> hash.contents]

\* GateBuilder.build(config): ModuleNotFound when a module does not resolve;
\* otherwise the archive path and hash, building and writing the archive
\* only when the target file does not exist yet.
build ==
    /\ Len(b_log) < MaxBuilds
    /\ \E config \in GateBuildConfigs :
        LET hash == compute_hash(config, b_files)
            path == gate_path(hash)
            found == \A m \in sorted_modules(config) : b_files[m] # "absent"
            hit == path \in DOMAIN b_cache
        IN  /\ b_cache' =
                 IF found /\ ~hit
                 THEN [p \in (DOMAIN b_cache) \cup {path} |->
                          IF p = path THEN archive(hash) ELSE b_cache[p]]
                 ELSE b_cache
            /\ b_log' = Append(b_log,
                 [config |-> config, files |-> b_files, hash |-> hash, path |-> path,
                  outcome |-> IF ~found THEN "ModuleNotFound"
                              ELSE IF hit THEN "cache hit" ELSE "built"])
    /\ UNCHANGED <<b_files, notBuilder>>

\* A module file of the search root is edited, removed or put back.
edit_module ==
    /\ Len(b_log) < MaxBuilds
    /\ \E v \in {"absent", "v1", "v2"} :
        /\ b_files["ping"] # v
        /\ b_files' = [b_files EXCEPT !["ping"] = v]
    /\ UNCHANGED <<b_cache, b_log, notBuilder>>

BuilderNext ==
    \/ build
    \/ edit_module

\* ------------------------------------------------------------------------
\* Frame codec (tools/gate_debug.py)
\* ------------------------------------------------------------------------
\* A byte string is a sequence of one-character strings; a Python str is a
\* sequence of code points.  JSON values carry their Python type.

MaxSends == 2

\* Code points used in message types, keys and values, with ord().
CodePoints == {"a", "\"", "\\", "U+00E9"}
ord(c) ==
    CASE c = "a" -> 97
      [] c = "\"" -> 34
      [] c = "\\" -> 92
      [] c = "U+00E9" -> 233
chr(n) == CHOOSE c \in CodePoints : ord(c) = n

PyStr(s) == [kind |-> "str", v |-> s]
PyInt(n) == [kind |-> "int", v |-> n]
PyDict(items) == [kind |-> "dict", v |-> items]
PyList(elems) == [kind |-> "list", v |-> elems]

HexDigits == <<"0", "1", "2", "3", "4", "5", "6", "7",
               "8", "9", "a", "b", "c", "d", "e", "f">>
DecDigits == SubSeq(HexDigits, 1, 10)
DigitValue(d) == (CHOOSE i \in 1..16 : HexDigits[i] = d) - 1
IsDigit(d, base) == \E i \in 1..base : HexDigits[i] = d

\* The element of a one-element set.  { F(x) : x \in {e} } works e out once
\* and hands its value to F, however often F uses it.
Only(S) == CHOOSE v \in S : TRUE

RECURSIVE ConcatFrom(_, _)
ConcatFrom(seqs, i) ==
    IF i > Len(seqs) THEN <<>> ELSE seqs[i] \o ConcatFrom(seqs, i + 1)
Concat(parts) == Only({ConcatFrom(seqs, 1) : seqs \in {parts}})

\* format(n, "x") / str(n): the digits of n, most significant first.
RECURSIVE ToDigits(_, _)
ToDigits(n, base) ==
    IF n < base THEN <<HexDigits[n + 1]>>
    ELSE Append(ToDigits(n \div base, base), HexDigits[(n % base) + 1])

\* Zero padding to a minimum width.
ZeroPad(digits, width) ==
    Only({[i \in 1..(width - Len(d)) |-> "0"] \o d : d \in {digits}})

\* f"{length:08x}"
format_08x(length) == ZeroPad(ToDigits(length, 16), 8)

\* int(text, base) for a string of digits; -1 stands for ValueError.
RECURSIVE FromDigits(_, _, _, _)
FromDigits(text, i, base, acc) ==
    IF i > Len(text) THEN acc
    ELSE IF ~IsDigit(text[i], base) THEN -1
    ELSE FromDigits(text, i + 1, base, acc * base + DigitValue(text[i]))
int(text, base) ==
    Only({IF t = <<>> THEN -1 ELSE FromDigits(t, 1, base, 0) : t \in {text}})

\* json.dumps of one code point inside a string (ensure_ascii is on).
dumps_char(c) ==
    IF c \in {"\"", "\\"} THEN <<"\\", c>>
    ELSE IF ord(c) > 127 THEN <<"\\", "u">> \o ZeroPad(ToDigits(ord(c), 16), 4)
    ELSE <<c>>
dumps_str(s) ==
    <<"\"">> \o Concat([i \in 1..Len(s) |-> dumps_char(s[i])]) \o <<"\"">>

\* json.dumps with the default separators ", " and ": ".
RECURSIVE dumps(_)
dumps_joined(parts) ==
    Only({Concat([i \in 1..Len(ps) |->
                     IF i = 1 THEN ps[i] ELSE <<",", " ">> \o ps[i]]) :
          ps \in {parts}})
dumps(value) ==
    CASE value.kind = "str" -> dumps_str(value.v)
      [] value.kind = "int" -> ToDigits(value.v, 10)
      [] value.kind = "list" ->
            <<"[">> \o dumps_joined([i \in 1..Len(value.v) |-> dumps(value.v[i])])
                    \o <<"]">>
      [] value.kind = "dict" ->
            <<"{">> \o dumps_joined([i \in 1..Len(value.v) |->
                            dumps_str(value.v[i][1]) \o <<":", " ">>
                                \o dumps(value.v[i][2])])
                    \o <<"}">>

\* encode_message: 8 hex digits of the body's length, then the body.  The
\* body is ASCII, so its UTF-8 length is its number of characters.
encode_message_no_length(msg_type, msg_data) ==
    format_08x(0) \o dumps(PyList(<<PyStr(msg_type), msg_data>>))

encode_message(msg_type, msg_data) ==
    Only({format_08x(Len(body)) \o body :
          body \in {dumps(PyList(<<PyStr(msg_type), msg_data>>))}})

\* json.loads: a parse returns the value and the position after it, or
\* JSONDecodeError.
JSONDecodeError == [ok |-> FALSE]
Parsed(value, pos) == [ok |-> TRUE, val |-> value, pos |-> pos]

RECURSIVE skip_ws(_, _)
skip_ws(s, i) == IF i <= Len(s) /\ s[i] = " " THEN skip_ws(s, i + 1) ELSE i

\* The inside of a string, after its opening quote.
RECURSIVE scan_string(_, _, _)
scan_string(s, i, acc) ==
    IF i > Len(s) THEN JSONDecodeError
    ELSE IF s[i] = "\"" THEN Parsed(acc, i + 1)
    ELSE IF s[i] = "\\"
         THEN IF i + 1 > Len(s) THEN JSONDecodeError
              ELSE IF s[i + 1] \in {"\"", "\\"}
                   THEN scan_string(s, i + 2, Append(acc, s[i + 1]))
              ELSE IF s[i + 1] = "u" /\ i + 5 <= Len(s)
                        /\ int(SubSeq(s, i + 2, i + 5), 16) >= 0
                   THEN scan_string(s, i + 6,
                            Append(acc, chr(int(SubSeq(s, i + 2, i + 5), 16))))
              ELSE JSONDecodeError
    ELSE scan_string(s, i + 1, Append(acc, s[i]))

RECURSIVE scan_number(_, _)
scan_number(s, i) ==
    IF i <= Len(s) /\ IsDigit(s[i], 10) THEN scan_number(s, i + 1) ELSE i

RECURSIVE scan_value(_, _)
RECURSIVE scan_elements(_, _, _)
RECURSIVE scan_members(_, _, _)

\* After a value that ended before position j: the closing bracket, or a
\* comma and the rest (more), or an error.
after_value(s, j, closing, done, more) ==
    IF j > Len(s) THEN JSONDecodeError
    ELSE IF s[j] = closing THEN Parsed(done, j + 1)
    ELSE IF s[j] = "," THEN more
    ELSE JSONDecodeError

\* The elements of a list after "[" or after a ",".
scan_elements(s, i, acc) ==
    Only({IF ~e.ok THEN JSONDecodeError
          ELSE Only({after_value(s, j, "]", PyList(Append(acc, e.val)),
                                 scan_elements(s, j + 1, Append(acc, e.val))) :
                     j \in {skip_ws(s, e.pos)}}) :
          e \in {scan_value(s, i)}})

\* The value of a member of an object, after its key.
scan_member_value(s, key) ==
    IF ~key.ok THEN JSONDecodeError
    ELSE Only({IF c <= Len(s) /\ s[c] = ":" THEN scan_value(s, c + 1)
               ELSE JSONDecodeError :
               c \in {skip_ws(s, key.pos)}})

\* The members of an object after "{" or after a ",".
scan_members(s, i, acc) ==
    Only({Only({IF ~e.ok THEN JSONDecodeError
                ELSE Only({after_value(s, j, "}",
                               PyDict(Append(acc, <<key.val, e.val>>)),
                               scan_members(s, j + 1,
                                            Append(acc, <<key.val, e.val>>))) :
                           j \in {skip_ws(s, e.pos)}}) :
                e \in {scan_member_value(s, key)}}) :
          key \in {Only({IF k <= Len(s) /\ s[k] = "\""
                         THEN scan_string(s, k + 1, <<>>)
                         ELSE JSONDecodeError :
                         k \in {skip_ws(s, i)}})}})

\* "[" or "{" at position k: the empty list or object, or its contents.
scan_brackets(s, k, closing, empty, contents) ==
    Only({IF j <= Len(s) /\ s[j] = closing THEN Parsed(empty, j + 1)
          ELSE contents :
          j \in {skip_ws(s, k + 1)}})

scan_value_at(s, k) ==
    IF k > Len(s) THEN JSONDecodeError
    ELSE IF s[k] = "\""
         THEN Only({IF r.ok THEN Parsed(PyStr(r.val), r.pos) ELSE r :
                    r \in {scan_string(s, k + 1, <<>>)}})
    ELSE IF IsDigit(s[k], 10)
         THEN Only({Parsed(PyInt(int(SubSeq(s, k, end - 1), 10)), end) :
                    end \in {scan_number(s, k)}})
    ELSE IF s[k] = "["
         THEN scan_brackets(s, k, "]", PyList(<<>>), scan_elements(s, k + 1, <<>>))
    ELSE IF s[k] = "{"
         THEN scan_brackets(s, k, "}", PyDict(<<>>), scan_members(s, k + 1, <<>>))
    ELSE JSONDecodeError

scan_value(s, i) == Only({scan_value_at(s, k) : k \in {skip_ws(s, i)}})

\* json.loads(body): one value and nothing but whitespace after it.
json_loads(body) ==
    Only({Only({IF r.ok /\ skip_ws(text, r.pos) = Len(text) + 1 THEN r
                ELSE JSONDecodeError :
                r \in {scan_value(text, 1)}}) :
          text \in {body}})

\* `msg_type, data = json.loads(body)`: the value unpacks into two names.
\* Raises stands for the JSONDecodeError, TypeError or ValueError.
Raises == [raised |-> TRUE]
Unpacked(message) == [raised |-> FALSE, message |-> message]
unpack_message(body) ==
    Only({IF r.ok /\ r.val.kind \in {"list", "str"} /\ Len(r.val.v) = 2
          THEN IF r.val.kind = "list" THEN Unpacked(<<r.val.v[1], r.val.v[2]>>)
               ELSE Unpacked(<<PyStr(<<r.val.v[1]>>), PyStr(<<r.val.v[2]>>)>>)
          ELSE Raises :
          r \in {json_loads(body)}})

\* raw[a:b] with Python's clamping (a, b are 0-based, b exclusive).
Slice(raw, a, b) ==
    SubSeq(raw, a + 1, IF b > Len(raw) THEN Len(raw) ELSE b)

\* One pass of the while loop of decode_messages at position pos.
Decoded(messages) == [raised |-> FALSE, messages |-> messages]
RECURSIVE decode_from(_, _, _)
decode_frame(raw, pos, messages, length) ==
    IF length < 0 THEN Raises
    ELSE Only({IF unpacked.raised THEN Raises
               ELSE decode_from(raw, pos + 8 + length,
                                Append(messages, unpacked.message)) :
               unpacked \in {unpack_message(Slice(raw, pos + 8, pos + 8 + length))}})

\* decode_messages: the while loop from position pos with the messages
\* decoded so far.
decode_from(raw, pos, messages) ==
    IF ~(pos < Len(raw)) \/ pos + 8 > Len(raw) THEN Decoded(messages)
    ELSE Only({decode_frame(raw, pos, messages, length) :
               length \in {int(Slice(raw, pos, pos + 8), 16)}})

decode_messages(raw) == Only({decode_from(bytes, 0, <<>>) : bytes \in {raw}})

\* The messages the debugger exchanges.
MessageTypes == {<<"a">>, <<"U+00E9", "\"">>}
Bodies ==
    {PyDict(<<>>),
     PyDict(<<<< <<"a">>, PyStr(<<"\\", "U+00E9">>) >>>>),
     PyDict(<<<< <<"\"">>, PyInt(10) >>, << <<"\\">>, PyDict(<<>>) >>>>)}

\* The gate writes one more frame onto the stream.
stream_write ==
    /\ Len(k_sent) < MaxSends
    /\ \E msg_type \in MessageTypes, msg_data \in Bodies :
          /\ k_sent' = Append(k_sent, <<PyStr(msg_type), msg_data>>)
          /\ k_raw' = k_raw \o encode_message(msg_type, msg_data)
    /\ k_decoded' = <<>>
    /\ UNCHANGED <<k_pos, k_buf, k_shown, k_reader, notCodec>>

\* reader_thread's inner loop over buf: the messages it displays and the
\* rest of buf.
Drained(buf, shown, raised) == [buf |-> buf, shown |-> shown, raised |-> raised]
RECURSIVE drain(_, _)
drain_frame(buf, shown, length) ==
    IF length < 0 \/ Len(buf) < 8 + length THEN Drained(buf, shown, FALSE)
    ELSE Only({IF unpacked.raised THEN Drained(rest, shown, TRUE)
               ELSE drain(rest, Append(shown, unpacked.message)) :
               unpacked \in {unpack_message(Slice(buf, 8, 8 + length))},
               rest \in {Slice(buf, 8 + length, Len(buf))}})
drain(buf, shown) ==
    IF ~(Len(buf) >= 8) THEN Drained(buf, shown, FALSE)
    ELSE Only({drain_frame(buf, shown, length) :
               length \in {int(Slice(buf, 0, 8), 16)}})

\* reader_thread reads one byte and displays what is complete.
reader_thread ==
    /\ k_reader = "running" /\ k_pos < Len(k_raw)
    /\ \E buf \in {Append(k_buf, k_raw[k_pos + 1])} :
        \E d \in {drain(buf, k_shown)} :
           /\ k_buf' = d.buf
           /\ k_shown' = d.shown
           /\ k_reader' = IF d.raised THEN "raised" ELSE "running"
    /\ k_pos' = k_pos + 1
    /\ UNCHANGED <<k_sent, k_raw, k_decoded, notCodec>>

\* decode_messages is applied to the whole stream.
decode_stream ==
    /\ k_decoded = <<>> /\ k_raw # <<>>
    /\ k_decoded' = <<decode_messages(k_raw)>>
    /\ UNCHANGED <<k_sent, k_raw, k_pos, k_buf, k_shown, k_reader, notCodec>>

CodecNext ==
    \/ stream_write
    \/ reader_thread
    \/ decode_stream

\* ------------------------------------------------------------------------
\* ping (automation/proxy.py)
\* ------------------------------------------------------------------------
\* The context's execute and run_on are outside the proxy: what they come
\* back with is an input.  A stdout text is a sequence of units.

MaxStdout == 2

StdoutUnits == {"pong", "\n", "x"}
StdoutTexts == UNION { [1..n -> StdoutUnits] : n \in 0..MaxStdout }

\* str.strip(): leading and trailing whitespace removed.
RECURSIVE lstrip(_)
lstrip(text) ==
    IF text # <<>> /\ Head(text) = "\n" THEN lstrip(Tail(text)) ELSE text
RECURSIVE rstrip(_)
rstrip(text) ==
    IF text # <<>> /\ text[Len(text)] = "\n"
    THEN rstrip(SubSeq(text, 1, Len(text) - 1)) ELSE text
strip(text) == rstrip(lstrip(text))

\* The output mapping of the command module: its stdout key holds a text,
\* is missing, or holds something that is not a string.
OutputText(text) == [stdout |-> "str", text |-> text]
OutputNoStdout == [stdout |-> "absent", text |-> <<>>]
OutputNonStr == [stdout |-> "None", text |-> <<>>]
CommandOutputs ==
    {OutputText(t) : t \in StdoutTexts} \cup {OutputNoStdout, OutputNonStr}

\* A result of run_on for one host.  A host on which echo printed pong is
\* not reported as failed.
ExecuteResult(success, output) == [success |-> success, output |-> output]
ExecuteResults ==
    {ExecuteResult(TRUE, o) : o \in CommandOutputs}
      \cup {ExecuteResult(FALSE, o) :
               o \in {c \in CommandOutputs : strip(c.text) # <<"pong">>}}

\* What the awaited context call does: it returns (execute: the output
\* mapping; run_on: one result per host of the target) or raises.
ExecuteReturns(output) == [kind |-> "output", output |-> output]
RunOnReturns(results) == [kind |-> "results", results |-> results]
CallRaises(exception) == [kind |-> "raises", exception |-> exception]
ContextRaises == {CallRaises(e) : e \in {"TimeoutError", "Exception"}}
\* How many hosts run_on reaches: one for a host, none to two for the group.
ResultCounts(target) == IF target = "webservers" THEN {0, 1, 2} ELSE {1}
ContextReplies(target) ==
    IF target \in {"local", "localhost"}
    THEN {ExecuteReturns(o) : o \in CommandOutputs} \cup ContextRaises
    ELSE {RunOnReturns(rs) :
             rs \in UNION { [1..n -> ExecuteResults] : n \in ResultCounts(target) }}
           \cup ContextRaises

PingReturns == [kind |-> "returns", value |-> [ping |-> "pong"]]
PingRaises(exception) == [kind |-> "raises", exception |-> exception]

\* result.get("stdout", "").strip() == "pong"; .strip() on a value that is
\* not a string raises AttributeError, which the last except clause wraps.
verify_response(output) ==
    IF output.stdout = "None" THEN PingRaises("ConnectionError")
    ELSE IF strip(output.text) = <<"pong">> THEN PingReturns
    ELSE PingRaises("ConnectionError")

\* The body of ping() after the context call has come back.
ping_result(reply) ==
    IF reply.kind = "raises"
    THEN PingRaises(IF reply.exception = "TimeoutError" THEN "TimeoutError"
                    ELSE "ConnectionError")
    ELSE IF reply.kind = "output" THEN verify_response(reply.output)
    ELSE IF reply.results = <<>> THEN PingRaises("ConnectionError")
    ELSE IF ~reply.results[1].success THEN PingRaises("ConnectionError")
    ELSE verify_response(reply.results[1].output)

\* await ftl.<target>.ping()
ping ==
    /\ g_pc = "call"
    /\ \E reply \in ContextReplies(g_target) :
          /\ g_reply' = reply
          /\ g_outcome' = ping_result(reply)
    /\ g_pc' = "done"
    /\ UNCHANGED <<g_target, notPing>>

PingNext == ping

\* ------------------------------------------------------------------------
\* Specifications
\* ------------------------------------------------------------------------
\* In each specification the other parts stay as they are before they start.

\* The gate as main() starts its loop.
GateInit ==
    /\ HAS_FTL_GATE \in BOOLEAN
    /\ received = <<>>
    /\ inflight = {}
    /\ out = <<>>
    /\ gate_ret = "running"
    /\ fs = [state |-> Absent, tmp |-> Absent]
    /\ clock = 0
    /\ data = _empty_state(0)
    /\ orphans = 0
    /\ spc = "idle"
    /\ sop = NoOp
    /\ content = _empty_state(0)
    /\ last_result = "none"
    /\ nops = 0
    /\ chunk_size = default_chunk_size
    /\ nhosts = 0
    /\ epc = "loop"
    /\ next_i = 0
    /\ tasks = <<>>
    /\ all_results = <<>>
    /\ summary = NoSummary
    /\ m_host = [name |-> "web1", vars |-> HostVars("web1")]
    /\ m_module_args = Opt(TRUE, NoDict)
    /\ m_host_args = Opt(TRUE, NoDict)
    /\ m_result = Raised
    /\ m_done = FALSE
    /\ r_host = "localhost"
    /\ r_module = NotFound
    /\ r_result = NoResult
    /\ r_done = FALSE
    /\ d_call = Top(Path("", "file"), TRUE)
    /\ d_pc = "ModuleProxy"
    /\ d_path = Path("", "file")
    /\ d_depth = 0
    /\ d_outcome = Pending
    /\ s_module = "shell"
    /\ s_args = Args(<<>>, <<>>, "", "")
    /\ s_override = FALSE
    /\ s_result = SafetyCheckResult
    /\ s_pc = "call"
    /\ s_sent = 0
    /\ w_params = [timeout |-> 1, delay |-> 0, sleep |-> 1, connect_timeout |-> 1]
    /\ w_pc = "delay"
    /\ w_now = 0
    /\ w_start = 0
    /\ w_target = "web1"
    /\ w_probed = {}
    /\ c_module = <<>>
    /\ c_shape = "none"
    /\ c_args = "none"
    /\ c_suffix = ".py"
    /\ c_local_shape = "none"
    /\ c_local_args = "none"
    /\ f_local_runner = FALSE
    /\ f_remote_runner = FALSE
    /\ f_cur = NoDispatch
    /\ f_log = <<>>
    /\ p_reporter = "NullProgressReporter"
    /\ p_sink = "ok"
    /\ p_pc = "execution_start"
    /\ p_host = 1
    /\ p_ran = <<>>
    /\ p_results = <<>>
    /\ p_written = <<>>
    /\ p_completed = 0
    /\ i_inventory = [g \in GroupNames |-> NoGroup]
    /\ i_state = [n \in StateHostNames |-> NoHost]
    /\ i_merged = {}
    /\ b_files = [m \in BuildModules |-> "v1"]
    /\ b_cache = <<>>
    /\ b_log = <<>>
    /\ k_sent = <<>>
    /\ k_raw = <<>>
    /\ k_pos = 0
    /\ k_buf = <<>>
    /\ k_shown = <<>>
    /\ k_reader = "running"
    /\ k_decoded = <<>>
    /\ g_target = "local"
    /\ g_reply = [kind |-> "none"]
    /\ g_pc = "call"
    /\ g_outcome = [kind |-> "none"]

\* State(path) on a directory whose state file is missing or is not JSON.
StoreInit ==
    /\ fs \in { [state |-> f, tmp |-> Absent] : f \in {Absent, Corrupt} }
    /\ clock = 0
    /\ data = read_state_file(fs["state"], clock)
    /\ orphans = 0
    /\ spc = "idle"
    /\ sop = NoOp
    /\ content = _empty_state(0)
    /\ last_result = "none"
    /\ nops = 0
    /\ HAS_FTL_GATE = FALSE
    /\ received = <<>>
    /\ inflight = {}
    /\ out = <<>>
    /\ gate_ret = "running"
    /\ chunk_size = default_chunk_size
    /\ nhosts = 0
    /\ epc = "loop"
    /\ next_i = 0
    /\ tasks = <<>>
    /\ all_results = <<>>
    /\ summary = NoSummary
    /\ m_host = [name |-> "web1", vars |-> HostVars("web1")]
    /\ m_module_args = Opt(TRUE, NoDict)
    /\ m_host_args = Opt(TRUE, NoDict)
    /\ m_result = Raised
    /\ m_done = FALSE
    /\ r_host = "localhost"
    /\ r_module = NotFound
    /\ r_result = NoResult
    /\ r_done = FALSE
    /\ d_call = Top(Path("", "file"), TRUE)
    /\ d_pc = "ModuleProxy"
    /\ d_path = Path("", "file")
    /\ d_depth = 0
    /\ d_outcome = Pending
    /\ s_module = "shell"
    /\ s_args = Args(<<>>, <<>>, "", "")
    /\ s_override = FALSE
    /\ s_result = SafetyCheckResult
    /\ s_pc = "call"
    /\ s_sent = 0
    /\ w_params = [timeout |-> 1, delay |-> 0, sleep |-> 1, connect_timeout |-> 1]
    /\ w_pc = "delay"
    /\ w_now = 0
    /\ w_start = 0
    /\ w_target = "web1"
    /\ w_probed = {}
    /\ c_module = <<>>
    /\ c_shape = "none"
    /\ c_args = "none"
    /\ c_suffix = ".py"
    /\ c_local_shape = "none"
    /\ c_local_args = "none"
    /\ f_local_runner = FALSE
    /\ f_remote_runner = FALSE
    /\ f_cur = NoDispatch
    /\ f_log = <<>>
    /\ p_reporter = "NullProgressReporter"
    /\ p_sink = "ok"
    /\ p_pc = "execution_start"
    /\ p_host = 1
    /\ p_ran = <<>>
    /\ p_results = <<>>
    /\ p_written = <<>>
    /\ p_completed = 0
    /\ i_inventory = [g \in GroupNames |-> NoGroup]
    /\ i_state = [n \in StateHostNames |-> NoHost]
    /\ i_merged = {}
    /\ b_files = [m \in BuildModules |-> "v1"]
    /\ b_cache = <<>>
    /\ b_log = <<>>
    /\ k_sent = <<>>
    /\ k_raw = <<>>
    /\ k_pos = 0
    /\ k_buf = <<>>
    /\ k_shown = <<>>
    /\ k_reader = "running"
    /\ k_decoded = <<>>
    /\ g_target = "local"
    /\ g_reply = [kind |-> "none"]
    /\ g_pc = "call"
    /\ g_outcome = [kind |-> "none"]

\* ModuleExecutor(chunk_size).run(inventory, context) is called.
ExecInit ==
    /\ chunk_size \in (1..MaxChunk) \cup {default_chunk_size}
    /\ nhosts \in 0..MaxHosts
    /\ epc = "loop"
    /\ next_i = 0
    /\ tasks = [h \in 1..nhosts |-> "none"]
    /\ all_results = <<>>
    /\ summary = NoSummary
    /\ HAS_FTL_GATE = FALSE
    /\ received = <<>>
    /\ inflight = {}
    /\ out = <<>>
    /\ gate_ret = "running"
    /\ fs = [state |-> Absent, tmp |-> Absent]
    /\ clock = 0
    /\ data = _empty_state(0)
    /\ orphans = 0
    /\ spc = "idle"
    /\ sop = NoOp
    /\ content = _empty_state(0)
    /\ last_result = "none"
    /\ nops = 0
    /\ m_host = [name |-> "web1", vars |-> HostVars("web1")]
    /\ m_module_args = Opt(TRUE, NoDict)
    /\ m_host_args = Opt(TRUE, NoDict)
    /\ m_result = Raised
    /\ m_done = FALSE
    /\ r_host = "localhost"
    /\ r_module = NotFound
    /\ r_result = NoResult
    /\ r_done = FALSE
    /\ d_call = Top(Path("", "file"), TRUE)
    /\ d_pc = "ModuleProxy"
    /\ d_path = Path("", "file")
    /\ d_depth = 0
    /\ d_outcome = Pending
    /\ s_module = "shell"
    /\ s_args = Args(<<>>, <<>>, "", "")
    /\ s_override = FALSE
    /\ s_result = SafetyCheckResult
    /\ s_pc = "call"
    /\ s_sent = 0
    /\ w_params = [timeout |-> 1, delay |-> 0, sleep |-> 1, connect_timeout |-> 1]
    /\ w_pc = "delay"
    /\ w_now = 0
    /\ w_start = 0
    /\ w_target = "web1"
    /\ w_probed = {}
    /\ c_module = <<>>
    /\ c_shape = "none"
    /\ c_args = "none"
    /\ c_suffix = ".py"
    /\ c_local_shape = "none"
    /\ c_local_args = "none"
    /\ f_local_runner = FALSE
    /\ f_remote_runner = FALSE
    /\ f_cur = NoDispatch
    /\ f_log = <<>>
    /\ p_reporter = "NullProgressReporter"
    /\ p_sink = "ok"
    /\ p_pc = "execution_start"
    /\ p_host = 1
    /\ p_ran = <<>>
    /\ p_results = <<>>
    /\ p_written = <<>>
    /\ p_completed = 0
    /\ i_inventory = [g \in GroupNames |-> NoGroup]
    /\ i_state = [n \in StateHostNames |-> NoHost]
    /\ i_merged = {}
    /\ b_files = [m \in BuildModules |-> "v1"]
    /\ b_cache = <<>>
    /\ b_log = <<>>
    /\ k_sent = <<>>
    /\ k_raw = <<>>
    /\ k_pos = 0
    /\ k_buf = <<>>
    /\ k_shown = <<>>
    /\ k_reader = "running"
    /\ k_decoded = <<>>
    /\ g_target = "local"
    /\ g_reply = [kind |-> "none"]
    /\ g_pc = "call"
    /\ g_outcome = [kind |-> "none"]

\* The inputs of one call of merge_arguments.
MergeInit ==
    /\ m_host \in { [name |-> h, vars |-> HostVars(h)] : h \in HostNames }
    /\ m_module_args \in {Opt(TRUE, NoDict)} \cup
          { Opt(FALSE, d) : d \in Dicts({Lit("/tmp"), Ref("config.dest_dir"),
                                         Ref("config.missing"), ListOf("config.dest_dir")}) }
    /\ m_host_args \in {Opt(TRUE, NoDict)} \cup
          { Opt(FALSE, d) : d \in UNION { [hs -> Dicts({Lit("/var/www")})] : hs \in SUBSET HostNames } }
    /\ m_result = Raised
    /\ m_done = FALSE
    /\ HAS_FTL_GATE = FALSE
    /\ received = <<>>
    /\ inflight = {}
    /\ out = <<>>
    /\ gate_ret = "running"
    /\ fs = [state |-> Absent, tmp |-> Absent]
    /\ clock = 0
    /\ data = _empty_state(0)
    /\ orphans = 0
    /\ spc = "idle"
    /\ sop = NoOp
    /\ content = _empty_state(0)
    /\ last_result = "none"
    /\ nops = 0
    /\ chunk_size = default_chunk_size
    /\ nhosts = 0
    /\ epc = "loop"
    /\ next_i = 0
    /\ tasks = <<>>
    /\ all_results = <<>>
    /\ summary = NoSummary
    /\ r_host = "localhost"
    /\ r_module = NotFound
    /\ r_result = NoResult
    /\ r_done = FALSE
    /\ d_call = Top(Path("", "file"), TRUE)
    /\ d_pc = "ModuleProxy"
    /\ d_path = Path("", "file")
    /\ d_depth = 0
    /\ d_outcome = Pending
    /\ s_module = "shell"
    /\ s_args = Args(<<>>, <<>>, "", "")
    /\ s_override = FALSE
    /\ s_result = SafetyCheckResult
    /\ s_pc = "call"
    /\ s_sent = 0
    /\ w_params = [timeout |-> 1, delay |-> 0, sleep |-> 1, connect_timeout |-> 1]
    /\ w_pc = "delay"
    /\ w_now = 0
    /\ w_start = 0
    /\ w_target = "web1"
    /\ w_probed = {}
    /\ c_module = <<>>
    /\ c_shape = "none"
    /\ c_args = "none"
    /\ c_suffix = ".py"
    /\ c_local_shape = "none"
    /\ c_local_args = "none"
    /\ f_local_runner = FALSE
    /\ f_remote_runner = FALSE
    /\ f_cur = NoDispatch
    /\ f_log = <<>>
    /\ p_reporter = "NullProgressReporter"
    /\ p_sink = "ok"
    /\ p_pc = "execution_start"
    /\ p_host = 1
    /\ p_ran = <<>>
    /\ p_results = <<>>
    /\ p_written = <<>>
    /\ p_completed = 0
    /\ i_inventory = [g \in GroupNames |-> NoGroup]
    /\ i_state = [n \in StateHostNames |-> NoHost]
    /\ i_merged = {}
    /\ b_files = [m \in BuildModules |-> "v1"]
    /\ b_cache = <<>>
    /\ b_log = <<>>
    /\ k_sent = <<>>
    /\ k_raw = <<>>
    /\ k_pos = 0
    /\ k_buf = <<>>
    /\ k_shown = <<>>
    /\ k_reader = "running"
    /\ k_decoded = <<>>
    /\ g_target = "local"
    /\ g_reply = [kind |-> "none"]
    /\ g_pc = "call"
    /\ g_outcome = [kind |-> "none"]

SpecGate == GateInit /\ [][GateNext]_vars

SpecStore == StoreInit /\ [][StoreNext]_vars

SpecExec == ExecInit /\ [][ExecNext]_vars

SpecMerge == MergeInit /\ [][MergeNext]_vars

\* LocalModuleRunner().run(host, context) is called for a module.
RunnerInit ==
    /\ r_host \in RunnerHosts
    /\ r_module \in Modules
    /\ r_result = NoResult
    /\ r_done = FALSE
    /\ HAS_FTL_GATE = FALSE
    /\ received = <<>>
    /\ inflight = {}
    /\ out = <<>>
    /\ gate_ret = "running"
    /\ fs = [state |-> Absent, tmp |-> Absent]
    /\ clock = 0
    /\ data = _empty_state(0)
    /\ orphans = 0
    /\ spc = "idle"
    /\ sop = NoOp
    /\ content = _empty_state(0)
    /\ last_result = "none"
    /\ nops = 0
    /\ chunk_size = default_chunk_size
    /\ nhosts = 0
    /\ epc = "loop"
    /\ next_i = 0
    /\ tasks = <<>>
    /\ all_results = <<>>
    /\ summary = NoSummary
    /\ m_host = [name |-> "web1", vars |-> HostVars("web1")]
    /\ m_module_args = Opt(TRUE, NoDict)
    /\ m_host_args = Opt(TRUE, NoDict)
    /\ m_result = Raised
    /\ m_done = FALSE
    /\ d_call = Top(Path("", "file"), TRUE)
    /\ d_pc = "ModuleProxy"
    /\ d_path = Path("", "file")
    /\ d_depth = 0
    /\ d_outcome = Pending
    /\ s_module = "shell"
    /\ s_args = Args(<<>>, <<>>, "", "")
    /\ s_override = FALSE
    /\ s_result = SafetyCheckResult
    /\ s_pc = "call"
    /\ s_sent = 0
    /\ w_params = [timeout |-> 1, delay |-> 0, sleep |-> 1, connect_timeout |-> 1]
    /\ w_pc = "delay"
    /\ w_now = 0
    /\ w_start = 0
    /\ w_target = "web1"
    /\ w_probed = {}
    /\ c_module = <<>>
    /\ c_shape = "none"
    /\ c_args = "none"
    /\ c_suffix = ".py"
    /\ c_local_shape = "none"
    /\ c_local_args = "none"
    /\ f_local_runner = FALSE
    /\ f_remote_runner = FALSE
    /\ f_cur = NoDispatch
    /\ f_log = <<>>
    /\ p_reporter = "NullProgressReporter"
    /\ p_sink = "ok"
    /\ p_pc = "execution_start"
    /\ p_host = 1
    /\ p_ran = <<>>
    /\ p_results = <<>>
    /\ p_written = <<>>
    /\ p_completed = 0
    /\ i_inventory = [g \in GroupNames |-> NoGroup]
    /\ i_state = [n \in StateHostNames |-> NoHost]
    /\ i_merged = {}
    /\ b_files = [m \in BuildModules |-> "v1"]
    /\ b_cache = <<>>
    /\ b_log = <<>>
    /\ k_sent = <<>>
    /\ k_raw = <<>>
    /\ k_pos = 0
    /\ k_buf = <<>>
    /\ k_shown = <<>>
    /\ k_reader = "running"
    /\ k_decoded = <<>>
    /\ g_target = "local"
    /\ g_reply = [kind |-> "none"]
    /\ g_pc = "call"
    /\ g_outcome = [kind |-> "none"]

SpecRunner == RunnerInit /\ [][RunnerNext]_vars

\* A module is called on the ftl object, directly or through a host or group.
DispatchInit ==
    /\ d_call \in Calls
    /\ d_pc = "ModuleProxy"
    /\ d_path = d_call.path
    /\ d_depth = 0
    /\ d_outcome = Pending
    /\ HAS_FTL_GATE = FALSE
    /\ received = <<>>
    /\ inflight = {}
    /\ out = <<>>
    /\ gate_ret = "running"
    /\ fs = [state |-> Absent, tmp |-> Absent]
    /\ clock = 0
    /\ data = _empty_state(0)
    /\ orphans = 0
    /\ spc = "idle"
    /\ sop = NoOp
    /\ content = _empty_state(0)
    /\ last_result = "none"
    /\ nops = 0
    /\ chunk_size = default_chunk_size
    /\ nhosts = 0
    /\ epc = "loop"
    /\ next_i = 0
    /\ tasks = <<>>
    /\ all_results = <<>>
    /\ summary = NoSummary
    /\ m_host = [name |-> "web1", vars |-> HostVars("web1")]
    /\ m_module_args = Opt(TRUE, NoDict)
    /\ m_host_args = Opt(TRUE, NoDict)
    /\ m_result = Raised
    /\ m_done = FALSE
    /\ r_host = "localhost"
    /\ r_module = NotFound
    /\ r_result = NoResult
    /\ r_done = FALSE
    /\ s_module = "shell"
    /\ s_args = Args(<<>>, <<>>, "", "")
    /\ s_override = FALSE
    /\ s_result = SafetyCheckResult
    /\ s_pc = "call"
    /\ s_sent = 0
    /\ w_params = [timeout |-> 1, delay |-> 0, sleep |-> 1, connect_timeout |-> 1]
    /\ w_pc = "delay"
    /\ w_now = 0
    /\ w_start = 0
    /\ w_target = "web1"
    /\ w_probed = {}
    /\ c_module = <<>>
    /\ c_shape = "none"
    /\ c_args = "none"
    /\ c_suffix = ".py"
    /\ c_local_shape = "none"
    /\ c_local_args = "none"
    /\ f_local_runner = FALSE
    /\ f_remote_runner = FALSE
    /\ f_cur = NoDispatch
    /\ f_log = <<>>
    /\ p_reporter = "NullProgressReporter"
    /\ p_sink = "ok"
    /\ p_pc = "execution_start"
    /\ p_host = 1
    /\ p_ran = <<>>
    /\ p_results = <<>>
    /\ p_written = <<>>
    /\ p_completed = 0
    /\ i_inventory = [g \in GroupNames |-> NoGroup]
    /\ i_state = [n \in StateHostNames |-> NoHost]
    /\ i_merged = {}
    /\ b_files = [m \in BuildModules |-> "v1"]
    /\ b_cache = <<>>
    /\ b_log = <<>>
    /\ k_sent = <<>>
    /\ k_raw = <<>>
    /\ k_pos = 0
    /\ k_buf = <<>>
    /\ k_shown = <<>>
    /\ k_reader = "running"
    /\ k_decoded = <<>>
    /\ g_target = "local"
    /\ g_reply = [kind |-> "none"]
    /\ g_pc = "call"
    /\ g_outcome = [kind |-> "none"]

SpecDispatch == DispatchInit /\ [][DispatchNext]_vars

\* check_command_safety is called with a command.
SafetyInit ==
    /\ s_module = "shell"
    /\ s_args \in { Args(c, <<>>, "", "") : c \in Commands }
    /\ s_override = FALSE
    /\ s_result = SafetyCheckResult
    /\ s_pc = "call"
    /\ s_sent = 0
    /\ HAS_FTL_GATE = FALSE
    /\ received = <<>>
    /\ inflight = {}
    /\ out = <<>>
    /\ gate_ret = "running"
    /\ fs = [state |-> Absent, tmp |-> Absent]
    /\ clock = 0
    /\ data = _empty_state(0)
    /\ orphans = 0
    /\ spc = "idle"
    /\ sop = NoOp
    /\ content = _empty_state(0)
    /\ last_result = "none"
    /\ nops = 0
    /\ chunk_size = default_chunk_size
    /\ nhosts = 0
    /\ epc = "loop"
    /\ next_i = 0
    /\ tasks = <<>>
    /\ all_results = <<>>
    /\ summary = NoSummary
    /\ m_host = [name |-> "web1", vars |-> HostVars("web1")]
    /\ m_module_args = Opt(TRUE, NoDict)
    /\ m_host_args = Opt(TRUE, NoDict)
    /\ m_result = Raised
    /\ m_done = FALSE
    /\ r_host = "localhost"
    /\ r_module = NotFound
    /\ r_result = NoResult
    /\ r_done = FALSE
    /\ d_call = Top(Path("", "file"), TRUE)
    /\ d_pc = "ModuleProxy"
    /\ d_path = Path("", "file")
    /\ d_depth = 0
    /\ d_outcome = Pending
    /\ w_params = [timeout |-> 1, delay |-> 0, sleep |-> 1, connect_timeout |-> 1]
    /\ w_pc = "delay"
    /\ w_now = 0
    /\ w_start = 0
    /\ w_target = "web1"
    /\ w_probed = {}
    /\ c_module = <<>>
    /\ c_shape = "none"
    /\ c_args = "none"
    /\ c_suffix = ".py"
    /\ c_local_shape = "none"
    /\ c_local_args = "none"
    /\ f_local_runner = FALSE
    /\ f_remote_runner = FALSE
    /\ f_cur = NoDispatch
    /\ f_log = <<>>
    /\ p_reporter = "NullProgressReporter"
    /\ p_sink = "ok"
    /\ p_pc = "execution_start"
    /\ p_host = 1
    /\ p_ran = <<>>
    /\ p_results = <<>>
    /\ p_written = <<>>
    /\ p_completed = 0
    /\ i_inventory = [g \in GroupNames |-> NoGroup]
    /\ i_state = [n \in StateHostNames |-> NoHost]
    /\ i_merged = {}
    /\ b_files = [m \in BuildModules |-> "v1"]
    /\ b_cache = <<>>
    /\ b_log = <<>>
    /\ k_sent = <<>>
    /\ k_raw = <<>>
    /\ k_pos = 0
    /\ k_buf = <<>>
    /\ k_shown = <<>>
    /\ k_reader = "running"
    /\ k_decoded = <<>>
    /\ g_target = "local"
    /\ g_reply = [kind |-> "none"]
    /\ g_pc = "call"
    /\ g_outcome = [kind |-> "none"]

SpecSafety == SafetyInit /\ [][SafetyNext]_vars

\* A module execution is about to be dispatched, with or without the override.
PreflightInit ==
    /\ s_module \in SafetyModules
    /\ s_args \in ModuleArgs
    /\ s_override \in BOOLEAN
    /\ s_result = SafetyCheckResult
    /\ s_pc = "call"
    /\ s_sent = 0
    /\ HAS_FTL_GATE = FALSE
    /\ received = <<>>
    /\ inflight = {}
    /\ out = <<>>
    /\ gate_ret = "running"
    /\ fs = [state |-> Absent, tmp |-> Absent]
    /\ clock = 0
    /\ data = _empty_state(0)
    /\ orphans = 0
    /\ spc = "idle"
    /\ sop = NoOp
    /\ content = _empty_state(0)
    /\ last_result = "none"
    /\ nops = 0
    /\ chunk_size = default_chunk_size
    /\ nhosts = 0
    /\ epc = "loop"
    /\ next_i = 0
    /\ tasks = <<>>
    /\ all_results = <<>>
    /\ summary = NoSummary
    /\ m_host = [name |-> "web1", vars |-> HostVars("web1")]
    /\ m_module_args = Opt(TRUE, NoDict)
    /\ m_host_args = Opt(TRUE, NoDict)
    /\ m_result = Raised
    /\ m_done = FALSE
    /\ r_host = "localhost"
    /\ r_module = NotFound
    /\ r_result = NoResult
    /\ r_done = FALSE
    /\ d_call = Top(Path("", "file"), TRUE)
    /\ d_pc = "ModuleProxy"
    /\ d_path = Path("", "file")
    /\ d_depth = 0
    /\ d_outcome = Pending
    /\ w_params = [timeout |-> 1, delay |-> 0, sleep |-> 1, connect_timeout |-> 1]
    /\ w_pc = "delay"
    /\ w_now = 0
    /\ w_start = 0
    /\ w_target = "web1"
    /\ w_probed = {}
    /\ c_module = <<>>
    /\ c_shape = "none"
    /\ c_args = "none"
    /\ c_suffix = ".py"
    /\ c_local_shape = "none"
    /\ c_local_args = "none"
    /\ f_local_runner = FALSE
    /\ f_remote_runner = FALSE
    /\ f_cur = NoDispatch
    /\ f_log = <<>>
    /\ p_reporter = "NullProgressReporter"
    /\ p_sink = "ok"
    /\ p_pc = "execution_start"
    /\ p_host = 1
    /\ p_ran = <<>>
    /\ p_results = <<>>
    /\ p_written = <<>>
    /\ p_completed = 0
    /\ i_inventory = [g \in GroupNames |-> NoGroup]
    /\ i_state = [n \in StateHostNames |-> NoHost]
    /\ i_merged = {}
    /\ b_files = [m \in BuildModules |-> "v1"]
    /\ b_cache = <<>>
    /\ b_log = <<>>
    /\ k_sent = <<>>
    /\ k_raw = <<>>
    /\ k_pos = 0
    /\ k_buf = <<>>
    /\ k_shown = <<>>
    /\ k_reader = "running"
    /\ k_decoded = <<>>
    /\ g_target = "local"
    /\ g_reply = [kind |-> "none"]
    /\ g_pc = "call"
    /\ g_outcome = [kind |-> "none"]

SpecPreflight == PreflightInit /\ [][PreflightNext]_vars

\* wait_for_ssh(timeout, delay, sleep, connect_timeout) is called.
WaitInit ==
    /\ w_params \in WaitParams
    /\ w_pc = "delay"
    /\ w_now = 0
    /\ w_start = 0
    /\ w_target \in WaitTargets
    /\ w_probed = {}
    /\ HAS_FTL_GATE = FALSE
    /\ received = <<>>
    /\ inflight = {}
    /\ out = <<>>
    /\ gate_ret = "running"
    /\ fs = [state |-> Absent, tmp |-> Absent]
    /\ clock = 0
    /\ data = _empty_state(0)
    /\ orphans = 0
    /\ spc = "idle"
    /\ sop = NoOp
    /\ content = _empty_state(0)
    /\ last_result = "none"
    /\ nops = 0
    /\ chunk_size = default_chunk_size
    /\ nhosts = 0
    /\ epc = "loop"
    /\ next_i = 0
    /\ tasks = <<>>
    /\ all_results = <<>>
    /\ summary = NoSummary
    /\ m_host = [name |-> "web1", vars |-> HostVars("web1")]
    /\ m_module_args = Opt(TRUE, NoDict)
    /\ m_host_args = Opt(TRUE, NoDict)
    /\ m_result = Raised
    /\ m_done = FALSE
    /\ r_host = "localhost"
    /\ r_module = NotFound
    /\ r_result = NoResult
    /\ r_done = FALSE
    /\ d_call = Top(Path("", "file"), TRUE)
    /\ d_pc = "ModuleProxy"
    /\ d_path = Path("", "file")
    /\ d_depth = 0
    /\ d_outcome = Pending
    /\ s_module = "shell"
    /\ s_args = Args(<<>>, <<>>, "", "")
    /\ s_override = FALSE
    /\ s_result = SafetyCheckResult
    /\ s_pc = "call"
    /\ s_sent = 0
    /\ c_module = <<>>
    /\ c_shape = "none"
    /\ c_args = "none"
    /\ c_suffix = ".py"
    /\ c_local_shape = "none"
    /\ c_local_args = "none"
    /\ f_local_runner = FALSE
    /\ f_remote_runner = FALSE
    /\ f_cur = NoDispatch
    /\ f_log = <<>>
    /\ p_reporter = "NullProgressReporter"
    /\ p_sink = "ok"
    /\ p_pc = "execution_start"
    /\ p_host = 1
    /\ p_ran = <<>>
    /\ p_results = <<>>
    /\ p_written = <<>>
    /\ p_completed = 0
    /\ i_inventory = [g \in GroupNames |-> NoGroup]
    /\ i_state = [n \in StateHostNames |-> NoHost]
    /\ i_merged = {}
    /\ b_files = [m \in BuildModules |-> "v1"]
    /\ b_cache = <<>>
    /\ b_log = <<>>
    /\ k_sent = <<>>
    /\ k_raw = <<>>
    /\ k_pos = 0
    /\ k_buf = <<>>
    /\ k_shown = <<>>
    /\ k_reader = "running"
    /\ k_decoded = <<>>
    /\ g_target = "local"
    /\ g_reply = [kind |-> "none"]
    /\ g_pc = "call"
    /\ g_outcome = [kind |-> "none"]

SpecWait == WaitInit /\ [][WaitNext]_vars

\* ModuleExecutor(chunk_size).run over an inventory of WideHosts hosts.
WideInit ==
    /\ chunk_size \in ConfiguredWidths
    /\ nhosts = WideHosts
    /\ epc = "loop"
    /\ next_i = 0
    /\ tasks = [h \in 1..nhosts |-> "none"]
    /\ all_results = <<>>
    /\ summary = NoSummary
    /\ HAS_FTL_GATE = FALSE
    /\ received = <<>>
    /\ inflight = {}
    /\ out = <<>>
    /\ gate_ret = "running"
    /\ fs = [state |-> Absent, tmp |-> Absent]
    /\ clock = 0
    /\ data = _empty_state(0)
    /\ orphans = 0
    /\ spc = "idle"
    /\ sop = NoOp
    /\ content = _empty_state(0)
    /\ last_result = "none"
    /\ nops = 0
    /\ m_host = [name |-> "web1", vars |-> HostVars("web1")]
    /\ m_module_args = Opt(TRUE, NoDict)
    /\ m_host_args = Opt(TRUE, NoDict)
    /\ m_result = Raised
    /\ m_done = FALSE
    /\ r_host = "localhost"
    /\ r_module = NotFound
    /\ r_result = NoResult
    /\ r_done = FALSE
    /\ d_call = Top(Path("", "file"), TRUE)
    /\ d_pc = "ModuleProxy"
    /\ d_path = Path("", "file")
    /\ d_depth = 0
    /\ d_outcome = Pending
    /\ s_module = "shell"
    /\ s_args = Args(<<>>, <<>>, "", "")
    /\ s_override = FALSE
    /\ s_result = SafetyCheckResult
    /\ s_pc = "call"
    /\ s_sent = 0
    /\ w_params = [timeout |-> 1, delay |-> 0, sleep |-> 1, connect_timeout |-> 1]
    /\ w_pc = "delay"
    /\ w_now = 0
    /\ w_start = 0
    /\ w_target = "web1"
    /\ w_probed = {}
    /\ c_module = <<>>
    /\ c_shape = "none"
    /\ c_args = "none"
    /\ c_suffix = ".py"
    /\ c_local_shape = "none"
    /\ c_local_args = "none"
    /\ f_local_runner = FALSE
    /\ f_remote_runner = FALSE
    /\ f_cur = NoDispatch
    /\ f_log = <<>>
    /\ p_reporter = "NullProgressReporter"
    /\ p_sink = "ok"
    /\ p_pc = "execution_start"
    /\ p_host = 1
    /\ p_ran = <<>>
    /\ p_results = <<>>
    /\ p_written = <<>>
    /\ p_completed = 0
    /\ i_inventory = [g \in GroupNames |-> NoGroup]
    /\ i_state = [n \in StateHostNames |-> NoHost]
    /\ i_merged = {}
    /\ b_files = [m \in BuildModules |-> "v1"]
    /\ b_cache = <<>>
    /\ b_log = <<>>
    /\ k_sent = <<>>
    /\ k_raw = <<>>
    /\ k_pos = 0
    /\ k_buf = <<>>
    /\ k_shown = <<>>
    /\ k_reader = "running"
    /\ k_decoded = <<>>
    /\ g_target = "local"
    /\ g_reply = [kind |-> "none"]
    /\ g_pc = "call"
    /\ g_outcome = [kind |-> "none"]

SpecWide == WideInit /\ [][WideNext]_vars

\* execute_module has loaded module_bytes.
ClassifyInit ==
    /\ c_module \in ModuleBytes
    /\ c_shape = "none"
    /\ c_args = "none"
    /\ c_suffix \in {".py", ""}
    /\ c_local_shape = "none"
    /\ c_local_args = "none"
    /\ HAS_FTL_GATE = FALSE
    /\ received = <<>>
    /\ inflight = {}
    /\ out = <<>>
    /\ gate_ret = "running"
    /\ fs = [state |-> Absent, tmp |-> Absent]
    /\ clock = 0
    /\ data = _empty_state(0)
    /\ orphans = 0
    /\ spc = "idle"
    /\ sop = NoOp
    /\ content = _empty_state(0)
    /\ last_result = "none"
    /\ nops = 0
    /\ chunk_size = default_chunk_size
    /\ nhosts = 0
    /\ epc = "loop"
    /\ next_i = 0
    /\ tasks = <<>>
    /\ all_results = <<>>
    /\ summary = NoSummary
    /\ m_host = [name |-> "web1", vars |-> HostVars("web1")]
    /\ m_module_args = Opt(TRUE, NoDict)
    /\ m_host_args = Opt(TRUE, NoDict)
    /\ m_result = Raised
    /\ m_done = FALSE
    /\ r_host = "localhost"
    /\ r_module = NotFound
    /\ r_result = NoResult
    /\ r_done = FALSE
    /\ d_call = Top(Path("", "file"), TRUE)
    /\ d_pc = "ModuleProxy"
    /\ d_path = Path("", "file")
    /\ d_depth = 0
    /\ d_outcome = Pending
    /\ s_module = "shell"
    /\ s_args = Args(<<>>, <<>>, "", "")
    /\ s_override = FALSE
    /\ s_result = SafetyCheckResult
    /\ s_pc = "call"
    /\ s_sent = 0
    /\ w_params = [timeout |-> 1, delay |-> 0, sleep |-> 1, connect_timeout |-> 1]
    /\ w_pc = "delay"
    /\ w_now = 0
    /\ w_start = 0
    /\ w_target = "web1"
    /\ w_probed = {}
    /\ f_local_runner = FALSE
    /\ f_remote_runner = FALSE
    /\ f_cur = NoDispatch
    /\ f_log = <<>>
    /\ p_reporter = "NullProgressReporter"
    /\ p_sink = "ok"
    /\ p_pc = "execution_start"
    /\ p_host = 1
    /\ p_ran = <<>>
    /\ p_results = <<>>
    /\ p_written = <<>>
    /\ p_completed = 0
    /\ i_inventory = [g \in GroupNames |-> NoGroup]
    /\ i_state = [n \in StateHostNames |-> NoHost]
    /\ i_merged = {}
    /\ b_files = [m \in BuildModules |-> "v1"]
    /\ b_cache = <<>>
    /\ b_log = <<>>
    /\ k_sent = <<>>
    /\ k_raw = <<>>
    /\ k_pos = 0
    /\ k_buf = <<>>
    /\ k_shown = <<>>
    /\ k_reader = "running"
    /\ k_decoded = <<>>
    /\ g_target = "local"
    /\ g_reply = [kind |-> "none"]
    /\ g_pc = "call"
    /\ g_outcome = [kind |-> "none"]

SpecClassify == ClassifyInit /\ [][ClassifyNext]_vars

\* A new ModuleRunnerFactory, before any dispatch.
FactoryInit ==
    /\ f_local_runner = FALSE
    /\ f_remote_runner = FALSE
    /\ f_cur = NoDispatch
    /\ f_log = <<>>
    /\ HAS_FTL_GATE = FALSE
    /\ received = <<>>
    /\ inflight = {}
    /\ out = <<>>
    /\ gate_ret = "running"
    /\ fs = [state |-> Absent, tmp |-> Absent]
    /\ clock = 0
    /\ data = _empty_state(0)
    /\ orphans = 0
    /\ spc = "idle"
    /\ sop = NoOp
    /\ content = _empty_state(0)
    /\ last_result = "none"
    /\ nops = 0
    /\ chunk_size = default_chunk_size
    /\ nhosts = 0
    /\ epc = "loop"
    /\ next_i = 0
    /\ tasks = <<>>
    /\ all_results = <<>>
    /\ summary = NoSummary
    /\ m_host = [name |-> "web1", vars |-> HostVars("web1")]
    /\ m_module_args = Opt(TRUE, NoDict)
    /\ m_host_args = Opt(TRUE, NoDict)
    /\ m_result = Raised
    /\ m_done = FALSE
    /\ r_host = "localhost"
    /\ r_module = NotFound
    /\ r_result = NoResult
    /\ r_done = FALSE
    /\ d_call = Top(Path("", "file"), TRUE)
    /\ d_pc = "ModuleProxy"
    /\ d_path = Path("", "file")
    /\ d_depth = 0
    /\ d_outcome = Pending
    /\ s_module = "shell"
    /\ s_args = Args(<<>>, <<>>, "", "")
    /\ s_override = FALSE
    /\ s_result = SafetyCheckResult
    /\ s_pc = "call"
    /\ s_sent = 0
    /\ w_params = [timeout |-> 1, delay |-> 0, sleep |-> 1, connect_timeout |-> 1]
    /\ w_pc = "delay"
    /\ w_now = 0
    /\ w_start = 0
    /\ w_target = "web1"
    /\ w_probed = {}
    /\ c_module = <<>>
    /\ c_shape = "none"
    /\ c_args = "none"
    /\ c_suffix = ".py"
    /\ c_local_shape = "none"
    /\ c_local_args = "none"
    /\ p_reporter = "NullProgressReporter"
    /\ p_sink = "ok"
    /\ p_pc = "execution_start"
    /\ p_host = 1
    /\ p_ran = <<>>
    /\ p_results = <<>>
    /\ p_written = <<>>
    /\ p_completed = 0
    /\ i_inventory = [g \in GroupNames |-> NoGroup]
    /\ i_state = [n \in StateHostNames |-> NoHost]
    /\ i_merged = {}
    /\ b_files = [m \in BuildModules |-> "v1"]
    /\ b_cache = <<>>
    /\ b_log = <<>>
    /\ k_sent = <<>>
    /\ k_raw = <<>>
    /\ k_pos = 0
    /\ k_buf = <<>>
    /\ k_shown = <<>>
    /\ k_reader = "running"
    /\ k_decoded = <<>>
    /\ g_target = "local"
    /\ g_reply = [kind |-> "none"]
    /\ g_pc = "call"
    /\ g_outcome = [kind |-> "none"]

SpecFactory == FactoryInit /\ [][FactoryNext]_vars

\* A run over ProgressHosts hosts starts, with the reporter of create_progress_reporter.
ProgressInit ==
    /\ p_reporter \in { create_progress_reporter(e, j) : e \in BOOLEAN, j \in BOOLEAN }
    /\ p_sink \in {"ok", "broken"}
    /\ p_pc = "execution_start"
    /\ p_host = 1
    /\ p_ran = [h \in 1..ProgressHosts |-> "none"]
    /\ p_results = [h \in 1..ProgressHosts |-> "none"]
    /\ p_written = <<>>
    /\ p_completed = 0
    /\ HAS_FTL_GATE = FALSE
    /\ received = <<>>
    /\ inflight = {}
    /\ out = <<>>
    /\ gate_ret = "running"
    /\ fs = [state |-> Absent, tmp |-> Absent]
    /\ clock = 0
    /\ data = _empty_state(0)
    /\ orphans = 0
    /\ spc = "idle"
    /\ sop = NoOp
    /\ content = _empty_state(0)
    /\ last_result = "none"
    /\ nops = 0
    /\ chunk_size = default_chunk_size
    /\ nhosts = 0
    /\ epc = "loop"
    /\ next_i = 0
    /\ tasks = <<>>
    /\ all_results = <<>>
    /\ summary = NoSummary
    /\ m_host = [name |-> "web1", vars |-> HostVars("web1")]
    /\ m_module_args = Opt(TRUE, NoDict)
    /\ m_host_args = Opt(TRUE, NoDict)
    /\ m_result = Raised
    /\ m_done = FALSE
    /\ r_host = "localhost"
    /\ r_module = NotFound
    /\ r_result = NoResult
    /\ r_done = FALSE
    /\ d_call = Top(Path("", "file"), TRUE)
    /\ d_pc = "ModuleProxy"
    /\ d_path = Path("", "file")
    /\ d_depth = 0
    /\ d_outcome = Pending
    /\ s_module = "shell"
    /\ s_args = Args(<<>>, <<>>, "", "")
    /\ s_override = FALSE
    /\ s_result = SafetyCheckResult
    /\ s_pc = "call"
    /\ s_sent = 0
    /\ w_params = [timeout |-> 1, delay |-> 0, sleep |-> 1, connect_timeout |-> 1]
    /\ w_pc = "delay"
    /\ w_now = 0
    /\ w_start = 0
    /\ w_target = "web1"
    /\ w_probed = {}
    /\ c_module = <<>>
    /\ c_shape = "none"
    /\ c_args = "none"
    /\ c_suffix = ".py"
    /\ c_local_shape = "none"
    /\ c_local_args = "none"
    /\ f_local_runner = FALSE
    /\ f_remote_runner = FALSE
    /\ f_cur = NoDispatch
    /\ f_log = <<>>
    /\ i_inventory = [g \in GroupNames |-> NoGroup]
    /\ i_state = [n \in StateHostNames |-> NoHost]
    /\ i_merged = {}
    /\ b_files = [m \in BuildModules |-> "v1"]
    /\ b_cache = <<>>
    /\ b_log = <<>>
    /\ k_sent = <<>>
    /\ k_raw = <<>>
    /\ k_pos = 0
    /\ k_buf = <<>>
    /\ k_shown = <<>>
    /\ k_reader = "running"
    /\ k_decoded = <<>>
    /\ g_target = "local"
    /\ g_reply = [kind |-> "none"]
    /\ g_pc = "call"
    /\ g_outcome = [kind |-> "none"]

SpecProgress == ProgressInit /\ [][ProgressNext]_vars

\* merge_state_into_inventory(state, inventory) is called.
InventoryInit ==
    /\ i_inventory \in Inventories
    /\ i_state \in StateHosts
    /\ i_merged = {}
    /\ HAS_FTL_GATE = FALSE
    /\ received = <<>>
    /\ inflight = {}
    /\ out = <<>>
    /\ gate_ret = "running"
    /\ fs = [state |-> Absent, tmp |-> Absent]
    /\ clock = 0
    /\ data = _empty_state(0)
    /\ orphans = 0
    /\ spc = "idle"
    /\ sop = NoOp
    /\ content = _empty_state(0)
    /\ last_result = "none"
    /\ nops = 0
    /\ chunk_size = default_chunk_size
    /\ nhosts = 0
    /\ epc = "loop"
    /\ next_i = 0
    /\ tasks = <<>>
    /\ all_results = <<>>
    /\ summary = NoSummary
    /\ m_host = [name |-> "web1", vars |-> HostVars("web1")]
    /\ m_module_args = Opt(TRUE, NoDict)
    /\ m_host_args = Opt(TRUE, NoDict)
    /\ m_result = Raised
    /\ m_done = FALSE
    /\ r_host = "localhost"
    /\ r_module = NotFound
    /\ r_result = NoResult
    /\ r_done = FALSE
    /\ d_call = Top(Path("", "file"), TRUE)
    /\ d_pc = "ModuleProxy"
    /\ d_path = Path("", "file")
    /\ d_depth = 0
    /\ d_outcome = Pending
    /\ s_module = "shell"
    /\ s_args = Args(<<>>, <<>>, "", "")
    /\ s_override = FALSE
    /\ s_result = SafetyCheckResult
    /\ s_pc = "call"
    /\ s_sent = 0
    /\ w_params = [timeout |-> 1, delay |-> 0, sleep |-> 1, connect_timeout |-> 1]
    /\ w_pc = "delay"
    /\ w_now = 0
    /\ w_start = 0
    /\ w_target = "web1"
    /\ w_probed = {}
    /\ c_module = <<>>
    /\ c_shape = "none"
    /\ c_args = "none"
    /\ c_suffix = ".py"
    /\ c_local_shape = "none"
    /\ c_local_args = "none"
    /\ f_local_runner = FALSE
    /\ f_remote_runner = FALSE
    /\ f_cur = NoDispatch
    /\ f_log = <<>>
    /\ p_reporter = "NullProgressReporter"
    /\ p_sink = "ok"
    /\ p_pc = "execution_start"
    /\ p_host = 1
    /\ p_ran = <<>>
    /\ p_results = <<>>
    /\ p_written = <<>>
    /\ p_completed = 0
    /\ b_files = [m \in BuildModules |-> "v1"]
    /\ b_cache = <<>>
    /\ b_log = <<>>
    /\ k_sent = <<>>
    /\ k_raw = <<>>
    /\ k_pos = 0
    /\ k_buf = <<>>
    /\ k_shown = <<>>
    /\ k_reader = "running"
    /\ k_decoded = <<>>
    /\ g_target = "local"
    /\ g_reply = [kind |-> "none"]
    /\ g_pc = "call"
    /\ g_outcome = [kind |-> "none"]

SpecInventory == InventoryInit /\ [][InventoryNext]_vars

\* A GateBuilder with an empty cache directory.
BuilderInit ==
    /\ b_files = [m \in BuildModules |-> "v1"]
    /\ b_cache = <<>>
    /\ b_log = <<>>
    /\ HAS_FTL_GATE = FALSE
    /\ received = <<>>
    /\ inflight = {}
    /\ out = <<>>
    /\ gate_ret = "running"
    /\ fs = [state |-> Absent, tmp |-> Absent]
    /\ clock = 0
    /\ data = _empty_state(0)
    /\ orphans = 0
    /\ spc = "idle"
    /\ sop = NoOp
    /\ content = _empty_state(0)
    /\ last_result = "none"
    /\ nops = 0
    /\ chunk_size = default_chunk_size
    /\ nhosts = 0
    /\ epc = "loop"
    /\ next_i = 0
    /\ tasks = <<>>
    /\ all_results = <<>>
    /\ summary = NoSummary
    /\ m_host = [name |-> "web1", vars |-> HostVars("web1")]
    /\ m_module_args = Opt(TRUE, NoDict)
    /\ m_host_args = Opt(TRUE, NoDict)
    /\ m_result = Raised
    /\ m_done = FALSE
    /\ r_host = "localhost"
    /\ r_module = NotFound
    /\ r_result = NoResult
    /\ r_done = FALSE
    /\ d_call = Top(Path("", "file"), TRUE)
    /\ d_pc = "ModuleProxy"
    /\ d_path = Path("", "file")
    /\ d_depth = 0
    /\ d_outcome = Pending
    /\ s_module = "shell"
    /\ s_args = Args(<<>>, <<>>, "", "")
    /\ s_override = FALSE
    /\ s_result = SafetyCheckResult
    /\ s_pc = "call"
    /\ s_sent = 0
    /\ w_params = [timeout |-> 1, delay |-> 0, sleep |-> 1, connect_timeout |-> 1]
    /\ w_pc = "delay"
    /\ w_now = 0
    /\ w_start = 0
    /\ w_target = "web1"
    /\ w_probed = {}
    /\ c_module = <<>>
    /\ c_shape = "none"
    /\ c_args = "none"
    /\ c_suffix = ".py"
    /\ c_local_shape = "none"
    /\ c_local_args = "none"
    /\ f_local_runner = FALSE
    /\ f_remote_runner = FALSE
    /\ f_cur = NoDispatch
    /\ f_log = <<>>
    /\ p_reporter = "NullProgressReporter"
    /\ p_sink = "ok"
    /\ p_pc = "execution_start"
    /\ p_host = 1
    /\ p_ran = <<>>
    /\ p_results = <<>>
    /\ p_written = <<>>
    /\ p_completed = 0
    /\ i_inventory = [g \in GroupNames |-> NoGroup]
    /\ i_state = [n \in StateHostNames |-> NoHost]
    /\ i_merged = {}
    /\ k_sent = <<>>
    /\ k_raw = <<>>
    /\ k_pos = 0
    /\ k_buf = <<>>
    /\ k_shown = <<>>
    /\ k_reader = "running"
    /\ k_decoded = <<>>
    /\ g_target = "local"
    /\ g_reply = [kind |-> "none"]
    /\ g_pc = "call"
    /\ g_outcome = [kind |-> "none"]

SpecBuilder == BuilderInit /\ [][BuilderNext]_vars

\* The frame codec: an empty stream, nothing read or decoded yet.
CodecInit ==
    /\ k_sent = <<>>
    /\ k_raw = <<>>
    /\ k_pos = 0
    /\ k_buf = <<>>
    /\ k_shown = <<>>
    /\ k_reader = "running"
    /\ k_decoded = <<>>
    /\ HAS_FTL_GATE = FALSE
    /\ received = <<>>
    /\ inflight = {}
    /\ out = <<>>
    /\ gate_ret = "running"
    /\ fs = [state |-> Absent, tmp |-> Absent]
    /\ clock = 0
    /\ data = _empty_state(0)
    /\ orphans = 0
    /\ spc = "idle"
    /\ sop = NoOp
    /\ content = _empty_state(0)
    /\ last_result = "none"
    /\ nops = 0
    /\ chunk_size = default_chunk_size
    /\ nhosts = 0
    /\ epc = "loop"
    /\ next_i = 0
    /\ tasks = <<>>
    /\ all_results = <<>>
    /\ summary = NoSummary
    /\ m_host = [name |-> "web1", vars |-> HostVars("web1")]
    /\ m_module_args = Opt(TRUE, NoDict)
    /\ m_host_args = Opt(TRUE, NoDict)
    /\ m_result = Raised
    /\ m_done = FALSE
    /\ r_host = "localhost"
    /\ r_module = NotFound
    /\ r_result = NoResult
    /\ r_done = FALSE
    /\ d_call = Top(Path("", "file"), TRUE)
    /\ d_pc = "ModuleProxy"
    /\ d_path = Path("", "file")
    /\ d_depth = 0
    /\ d_outcome = Pending
    /\ s_module = "shell"
    /\ s_args = Args(<<>>, <<>>, "", "")
    /\ s_override = FALSE
    /\ s_result = SafetyCheckResult
    /\ s_pc = "call"
    /\ s_sent = 0
    /\ w_params = [timeout |-> 1, delay |-> 0, sleep |-> 1, connect_timeout |-> 1]
    /\ w_pc = "delay"
    /\ w_now = 0
    /\ w_start = 0
    /\ w_target = "web1"
    /\ w_probed = {}
    /\ c_module = <<>>
    /\ c_shape = "none"
    /\ c_args = "none"
    /\ c_suffix = ".py"
    /\ c_local_shape = "none"
    /\ c_local_args = "none"
    /\ f_local_runner = FALSE
    /\ f_remote_runner = FALSE
    /\ f_cur = NoDispatch
    /\ f_log = <<>>
    /\ p_reporter = "NullProgressReporter"
    /\ p_sink = "ok"
    /\ p_pc = "execution_start"
    /\ p_host = 1
    /\ p_ran = <<>>
    /\ p_results = <<>>
    /\ p_written = <<>>
    /\ p_completed = 0
    /\ i_inventory = [g \in GroupNames |-> NoGroup]
    /\ i_state = [n \in StateHostNames |-> NoHost]
    /\ i_merged = {}
    /\ b_files = [m \in BuildModules |-> "v1"]
    /\ b_cache = <<>>
    /\ b_log = <<>>
    /\ g_target = "local"
    /\ g_reply = [kind |-> "none"]
    /\ g_pc = "call"
    /\ g_outcome = [kind |-> "none"]

SpecCodec == CodecInit /\ [][CodecNext]_vars

\* ping: a proxy scoped to a host or a group, before the call.
PingInit ==
    /\ g_target \in Targets
    /\ g_reply = [kind |-> "none"]
    /\ g_pc = "call"
    /\ g_outcome = [kind |-> "none"]
    /\ HAS_FTL_GATE = FALSE
    /\ received = <<>>
    /\ inflight = {}
    /\ out = <<>>
    /\ gate_ret = "running"
    /\ fs = [state |-> Absent, tmp |-> Absent]
    /\ clock = 0
    /\ data = _empty_state(0)
    /\ orphans = 0
    /\ spc = "idle"
    /\ sop = NoOp
    /\ content = _empty_state(0)
    /\ last_result = "none"
    /\ nops = 0
    /\ chunk_size = default_chunk_size
    /\ nhosts = 0
    /\ epc = "loop"
    /\ next_i = 0
    /\ tasks = <<>>
    /\ all_results = <<>>
    /\ summary = NoSummary
    /\ m_host = [name |-> "web1", vars |-> HostVars("web1")]
    /\ m_module_args = Opt(TRUE, NoDict)
    /\ m_host_args = Opt(TRUE, NoDict)
    /\ m_result = Raised
    /\ m_done = FALSE
    /\ r_host = "localhost"
    /\ r_module = NotFound
    /\ r_result = NoResult
    /\ r_done = FALSE
    /\ d_call = Top(Path("", "file"), TRUE)
    /\ d_pc = "ModuleProxy"
    /\ d_path = Path("", "file")
    /\ d_depth = 0
    /\ d_outcome = Pending
    /\ s_module = "shell"
    /\ s_args = Args(<<>>, <<>>, "", "")
    /\ s_override = FALSE
    /\ s_result = SafetyCheckResult
    /\ s_pc = "call"
    /\ s_sent = 0
    /\ w_params = [timeout |-> 1, delay |-> 0, sleep |-> 1, connect_timeout |-> 1]
    /\ w_pc = "delay"
    /\ w_now = 0
    /\ w_start = 0
    /\ w_target = "web1"
    /\ w_probed = {}
    /\ c_module = <<>>
    /\ c_shape = "none"
    /\ c_args = "none"
    /\ c_suffix = ".py"
    /\ c_local_shape = "none"
    /\ c_local_args = "none"
    /\ f_local_runner = FALSE
    /\ f_remote_runner = FALSE
    /\ f_cur = NoDispatch
    /\ f_log = <<>>
    /\ p_reporter = "NullProgressReporter"
    /\ p_sink = "ok"
    /\ p_pc = "execution_start"
    /\ p_host = 1
    /\ p_ran = <<>>
    /\ p_results = <<>>
    /\ p_written = <<>>
    /\ p_completed = 0
    /\ i_inventory = [g \in GroupNames |-> NoGroup]
    /\ i_state = [n \in StateHostNames |-> NoHost]
    /\ i_merged = {}
    /\ b_files = [m \in BuildModules |-> "v1"]
    /\ b_cache = <<>>
    /\ b_log = <<>>
    /\ k_sent = <<>>
    /\ k_raw = <<>>
    /\ k_pos = 0
    /\ k_buf = <<>>
    /\ k_shown = <<>>
    /\ k_reader = "running"
    /\ k_decoded = <<>>

SpecPing == PingInit /\ [][PingNext]_vars

\* ------------------------------------------------------------------------
\* State store: properties
\* ------------------------------------------------------------------------
OnDisk == read_state_file(fs["state"], clock)

Mutations == {"add_host", "add_resource", "update_resource",
              "remove_host", "remove_resource", "remove"}

\* C4: the file at the state path only ever changes by being replaced, in one
\* step, by the complete text of the document being written (so at every
\* instant, and after a crash at any step, it holds the complete previous or
\* the complete new document), and when a write has completed its temp file is
\* gone.
C4_AtomicWrite ==
    /\ []((spc = "idle" /\ last_result = "ok") => fs["tmp"] = Absent)
    /\ [][fs'["state"] # fs["state"] =>
            (spc = "rename" /\ fs'["state"] = File("full", content))]_vars

C4_Witness ==
    /\ spc = "crashed"
    /\ fs["tmp"].kind = "partial"
    /\ fs["state"].kind = "full"
    /\ fs["state"].doc # fs["tmp"].doc

\* C5: when a mutation has returned normally, the document read back from the
\* state file is the in-memory document: the same hosts and the same
\* resources.
C5_FileMirrorsMemory ==
    (spc = "idle" /\ last_result = "ok" /\ sop.name \in Mutations) =>
        /\ OnDisk.hosts = data.hosts
        /\ OnDisk.resources = data.resources
        /\ OnDisk = data

C5_Witness ==
    /\ spc = "idle" /\ last_result = "ok"
    /\ sop.name = "update_resource"
    /\ DOMAIN data.hosts # {}
    /\ data.resources[sop.target].provider = "aws"
    /\ fs["state"] = File("full", data)

\* C6: when a mutation has failed to persist (the write raised), the in-memory
\* hosts and resources are those of the document on disk.
C6_MemoryMatchesDiskAfterFailedWrite ==
    (spc = "idle" /\ last_result = "raised") =>
        /\ OnDisk.hosts = data.hosts
        /\ OnDisk.resources = data.resources

\* C11: a store constructed over a state file that is not JSON starts with
\* no hosts and no resources, and the unreadable file stays as it is until a
\* mutation's write completes: the only step that changes it is the rename
\* that puts the complete new document in its place.
C11_CorruptFileKeptUntilSuccessfulMutation ==
    /\ []((spc = "idle" /\ sop = NoOp /\ fs["state"].kind = "corrupt") =>
            (data.hosts = NoEntries /\ data.resources = NoEntries))
    /\ [][fs["state"].kind = "corrupt" =>
            \/ fs'["state"] = fs["state"]
            \/ /\ spc = "rename"
               /\ sop.name \in Mutations
               /\ fs'["state"] = File("full", content)]_vars

\* An earlier write over the corrupt file failed and left its temp file; the
\* file is still the corrupt one when a later write reaches its rename.
C11_Witness ==
    /\ fs["state"] = Corrupt
    /\ spc = "rename"
    /\ orphans > 0
    /\ sop.name \in Mutations

\* C28: every write of the state file that replaces a readable document puts
\* a document with a later updated_at in its place.
C28_UpdatedAtAdvances ==
    [][(write_rename /\ fs["state"].kind = "full") =>
          fs'["state"].doc.updated_at > fs["state"].doc.updated_at]_vars

\* The part that holds: updated_at of the persisted document never goes back
\* while the clock does not.
C28_UpdatedAtNeverEarlier ==
    [][(write_rename /\ fs["state"].kind = "full") =>
          fs'["state"].doc.updated_at >= fs["state"].doc.updated_at]_vars

\* ------------------------------------------------------------------------
\* Executor: properties
\* ------------------------------------------------------------------------
\* C7: run is never aborted by a host's exception, and when it returns every
\* host has its own result: failed with the error text for a host whose
\* runner raised, and the runner's own outcome for every other host.
C7_HostIsFailureDomain ==
    /\ epc # "raised"
    /\ epc = "done" =>
        \A h \in 1..nhosts :
            /\ h \in DOMAIN all_results
            /\ all_results[h].host_name = h
            /\ all_results[h].success = (tasks[h] = "ok")
            /\ (all_results[h].error = "str(e)") = (tasks[h] = "exception")

C7_Witness ==
    /\ epc = "done"
    /\ chunk_size >= 2
    /\ \E h1, h2 \in 1..nhosts :
        /\ h1 \in chunk(0, chunk_size, nhosts) /\ h2 \in chunk(0, chunk_size, nhosts)
        /\ tasks[h1] = "exception" /\ ~all_results[h1].success
        /\ tasks[h2] = "ok" /\ all_results[h2].success

\* C8: the number of hosts whose task is running never exceeds chunk_size.
C8_BoundedFanOut ==
    Cardinality(Running) <= chunk_size

C8_Witness ==
    /\ Cardinality(Running) = chunk_size
    /\ chunk_size < nhosts
    /\ next_i > 0

\* C21: the returned run holds one result per inventory host, each under its
\* own name, total_hosts is the number of hosts of the inventory, and
\* successful + failed = total_hosts, with successful counting exactly the
\* hosts whose runner reported success; for every chunk size.
C21_SummaryAccountsForEveryHost ==
    epc = "done" =>
        /\ DOMAIN all_results = 1..nhosts
        /\ \A h \in 1..nhosts : all_results[h].host_name = h
        /\ summary.total_hosts = nhosts
        /\ summary.successful + summary.failed = summary.total_hosts
        /\ summary.successful = Cardinality({ h \in 1..nhosts : tasks[h] = "ok" })

\* A run of several chunks, the last one short, with both outcomes.
C21_Witness ==
    /\ epc = "done"
    /\ chunk_size >= 2 /\ nhosts > chunk_size /\ nhosts % chunk_size # 0
    /\ summary.total_hosts = nhosts
    /\ summary.successful > 0 /\ summary.failed > 0

\* C22: whatever width is configured, no more than MAX_PARALLEL (100) hosts
\* have a task running at the same time.
C22_HardCeiling ==
    Cardinality(Running) <= MAX_PARALLEL

\* ------------------------------------------------------------------------
\* Argument resolver: properties
\* ------------------------------------------------------------------------
\* C9: when merge_arguments returns, every key of host_args[host] has the
\* value host_args[host] gives it, whatever module_args holds under that key.
C9_HostOverrideWins ==
    (m_done /\ m_result.kind = "dict" /\ Truthy(m_host_args)
            /\ m_host.name \in DOMAIN m_host_args.d) =>
        \A k \in DOMAIN m_host_args.d[m_host.name] :
            /\ k \in DOMAIN m_result.d
            /\ m_result.d[k] = m_host_args.d[m_host.name][k]

C9_Witness ==
    /\ m_done /\ m_result.kind = "dict"
    /\ Truthy(m_host_args) /\ m_host.name \in DOMAIN m_host_args.d
    /\ Truthy(m_module_args)
    /\ DOMAIN m_module_args.d = Keys
    /\ m_module_args.d["dest"] = Ref("config.dest_dir")
    /\ m_module_args.d["src"] = Lit("/tmp")
    /\ DOMAIN m_host_args.d[m_host.name] = Keys
    /\ m_result.d["dest"] = Lit("/var/www")
    /\ m_result.d["src"] = Lit("/var/www")

\* C19: when merge_arguments has returned, no value of the result is a Ref or
\* holds one: every reference of module_args has been replaced by the host's
\* value.
C19_NoUnresolvedRef ==
    (m_done /\ m_result.kind = "dict") =>
        \A k \in DOMAIN m_result.d : m_result.d[k].kind \notin {"ref", "list"}

\* C20: merge_arguments changes neither module_args nor host_args (nor the
\* host).
C20_MergeIsPure ==
    [][/\ m_module_args' = m_module_args
       /\ m_host_args' = m_host_args
       /\ m_host' = m_host]_vars

\* A merge that resolved a reference and overlaid a host's value: the result
\* differs from module_args.
C20_Witness ==
    /\ m_done
    /\ m_result.kind = "dict"
    /\ has_refs(m_module_args)
    /\ Truthy(m_host_args) /\ m_host.name \in DOMAIN m_host_args.d
    /\ "dest" \in DOMAIN m_host_args.d[m_host.name]
    /\ "dest" \in DOMAIN m_module_args.d
    /\ m_result.d # m_module_args.d

\* ------------------------------------------------------------------------
\* Gate: properties
\* ------------------------------------------------------------------------
RECURSIVE CountReq(_, _)
CountReq(o, r) ==
    IF o = <<>> THEN 0
    ELSE (IF Head(o).req = r THEN 1 ELSE 0) + CountReq(Tail(o), r)

RECURSIVE CountType(_, _)
CountType(o, t) ==
    IF o = <<>> THEN 0
    ELSE (IF Head(o).type = t THEN 1 ELSE 0) + CountType(Tail(o), t)

Replies(r) == CountReq(out, r)
ReplyTypes(r) == { out[k].type : k \in { j \in 1..Len(out) : out[j].req = r } }

C2_FifoOrder ==
    \A k \in 1..Len(out) :
        IF out[k].req = NoReq THEN k = Len(out) ELSE out[k].req = k

C2_Witness ==
    /\ Len(out) >= 3
    /\ \A k \in 1..3 : out[k].req = k
    /\ \E k \in 1..2 : received[k].type \in {"Module", "FTLModule"} /\ received[k].isdict

\* C3: at most one request is being executed, it is the last frame read, and
\* every frame read before it already has its reply.
C3_OneInFlight ==
    inflight # {} =>
        /\ inflight = {Len(received)}
        /\ \A r \in 1..(Len(received) - 1) : Replies(r) = 1

C3_Witness ==
    /\ inflight # {}
    /\ Len(received) >= 2
    /\ received[1].type \in {"Module", "FTLModule"}

\* C10: a Shutdown frame is the last frame the gate reads; it is answered by
\* one Goodbye, which is the last frame written, and main returns None
\* (exit code 0).
C10_ShutdownGoodbye ==
    \A r \in 1..Len(received) :
        received[r].type = "Shutdown" =>
            /\ r = Len(received)
            /\ out[Len(out)] = [type |-> "Goodbye", req |-> r]
            /\ CountType(out, "Goodbye") = 1
            /\ Replies(r) = 1
            /\ gate_ret = "None" /\ ExitCode(gate_ret) = 0

C10_Witness ==
    /\ Len(received) >= 2
    /\ received[Len(received)].type = "Shutdown"
    /\ gate_ret # "running"

\* A Module request with an object body, no inline module bytes and a name
\* the gate has no bundled module for.
AbsentModuleRequest(f) ==
    /\ f.type = "Module" /\ f.isdict
    /\ ~f.inline
    /\ (~HAS_FTL_GATE \/ f.module_name \notin Bundle)

\* C25: a Module request without inline bytes that names a module absent
\* from the bundled catalog is answered with one ModuleNotFound frame, and
\* when that answer is written the gate is back at reading the next frame:
\* main has not returned and nothing is in flight.
C25_AbsentModuleNotFound ==
    /\ [](\A r \in 1..Len(received) :
            (AbsentModuleRequest(received[r]) /\ r \notin inflight) =>
                Replies(r) = 1 /\ ReplyTypes(r) = {"ModuleNotFound"})
    /\ [][\A r \in inflight :
            (AbsentModuleRequest(received[r]) /\ r \notin inflight') =>
                /\ out' = Append(out, [type |-> "ModuleNotFound", req |-> r])
                /\ gate_ret' = "running" /\ inflight' = {}]_vars

\* An absent module was answered with ModuleNotFound and the next request
\* on the same session was served with a ModuleResult.
C25_Witness ==
    \E r \in 1..(Len(received) - 1) :
        /\ AbsentModuleRequest(received[r])
        /\ ReplyTypes(r) = {"ModuleNotFound"}
        /\ received[r + 1].type = "Module"
        /\ ReplyTypes(r + 1) = {"ModuleResult"}
        /\ gate_ret = "running"

\* ------------------------------------------------------------------------
\* C12: the result of a module is a success unless the module's output
\* carries failed=true or running it signalled an error; an output that
\* carries failed=true is reported as a failure.
C12_FailedOutputIsFailure ==
    r_done =>
        LET signalled == ~r_module.found \/ r_module.raises
                            \/ r_module.stdout.kind \in {"list", "bytes"}
            failed == r_module.stdout.kind = "object" /\ r_module.stdout.failed = "true"
        IN  r_result.success = (~signalled /\ ~failed)

\* C24: when a module ran and its stdout cannot be taken as a JSON object
\* (it is not JSON at all, or JSON of another type), the result is a success
\* without error whose output holds the whole stdout under the key stdout.
C24_NonJsonStdoutIsWrapped ==
    (r_done /\ r_module.found /\ ~r_module.raises /\ r_module.stdout.kind # "object") =>
        /\ r_result.success
        /\ r_result.error = "None"
        /\ r_result.output.stdout = r_module.stdout.raw

\* The part that holds: stdout that decodes and is not JSON text is wrapped.
C24_TextIsWrapped ==
    (r_done /\ r_module.found /\ ~r_module.raises /\ r_module.stdout.kind = "text") =>
        /\ r_result.success
        /\ r_result.error = "None"
        /\ r_result.output.stdout = r_module.stdout.raw

\* ------------------------------------------------------------------------
\* C13: a call of a shadowed module name, through whichever proxy, never ends
\* in a module dispatch (context.execute or context.run_on).
C13_ShadowedNeverDispatchedAsModule ==
    (d_pc = "done" /\ is_shadowed(d_call.path)) =>
        d_outcome.kind \notin {"execute", "run_on"}

\* C14: a call of a shadowed module through a host proxy ends in the native
\* method the registry names, without another HostScopedModuleProxy call.
C14_ShadowedEndsInNativeMethod ==
    (d_call.via = "host" /\ is_shadowed(d_call.path)) =>
        /\ d_depth <= 1
        /\ d_pc = "done" =>
            d_outcome = Native(get_native_method(d_call.path), proxy_target)

\* ------------------------------------------------------------------------
\* Safety checks: properties
\* ------------------------------------------------------------------------
\* The command has rm -rf on the root directory, a fork bomb, or a dd that
\* writes to a raw disk.
ContainsBlockedConstruct(cmd) ==
    \/ \E i \in 1..Len(cmd) :
        /\ i + 2 <= Len(cmd)
        /\ cmd[i] = "rm" /\ cmd[i+1] = "-rf" /\ cmd[i+2] \in {"/", "/*"}
    \/ \E i \in 1..Len(cmd) : cmd[i] = ":(){ :|:& };:"
    \/ \E i \in 1..Len(cmd), j \in 1..Len(cmd) :
        i < j /\ cmd[i] = "dd" /\ cmd[j] = "of=/dev/sda"

\* C15: a command that contains a blocked construct is reported blocked and
\* not safe, whatever else the command holds (scratch paths included).
C15_BlockedAlwaysRefused ==
    (s_pc = "checked" /\ ContainsBlockedConstruct(s_args.cmd)) =>
        (s_result.blocked /\ ~s_result.safe)

\* The command the scan reads: cmd, or _raw_params when cmd is not given.
ScannedCommand == IF s_args.cmd # <<>> THEN s_args.cmd ELSE s_args._raw_params

OutsideScratch == {"/", "/*", "/etc"}

\* C17: a command that matches a destructive pattern and has, among the
\* operands of rm or dd, a path outside the scratch locations is classed as
\* destructive (not safe), also when it names a scratch path as well.
C17_ExemptionOnlyForScratchOnly ==
    (/\ s_pc = "checked"
     /\ DESTRUCTIVE_PATTERNS(s_args.cmd) # {}
     /\ \E i \in 1..Len(s_args.cmd), j \in 1..Len(s_args.cmd) :
            i < j /\ s_args.cmd[i] \in {"rm", "dd"} /\ s_args.cmd[j] \in OutsideScratch) =>
        ~s_result.safe

\* ------------------------------------------------------------------------
\* wait_for_ssh: properties
\* ------------------------------------------------------------------------
\* C18: wait_for_ssh returns or raises no earlier than delay seconds and no
\* later than delay + timeout + sleep seconds after the call.
C18_ReturnsWithinBounds ==
    w_pc \in {"returned", "raised"} =>
        /\ w_now >= w_params.delay
        /\ w_now <= w_params.delay + w_params.timeout + w_params.sleep

\* ------------------------------------------------------------------------
\* Module type detection: properties
\* ------------------------------------------------------------------------
Undecodable == \E i \in 1..Len(c_module) : c_module[i] = "0xff"
HasAnsibleModuleMarker ==
    \E i \in 1..(Len(c_module) - 1) :
        c_module[i] = "AnsibleModule" /\ c_module[i + 1] = "("
HasWantJsonMarker == \E i \in 1..Len(c_module) : c_module[i] = "WANT_JSON"

\* C23: a classified module has exactly one shape, chosen in this order:
\* bytes that fail UTF-8 decoding are Binary; otherwise content with the
\* marker AnsibleModule( is NewStyle; otherwise content with WANT_JSON is
\* WantJson; otherwise OldStyle.
C23_ClassifiedInOrder ==
    c_shape # "none" =>
        /\ c_shape \in {"binary", "new-style", "WANT_JSON", "old-style"}
        /\ (c_shape = "binary") = Undecodable
        /\ (c_shape = "new-style") = (~Undecodable /\ HasAnsibleModuleMarker)
        /\ (c_shape = "WANT_JSON") =
              (~Undecodable /\ ~HasAnsibleModuleMarker /\ HasWantJsonMarker)
        /\ (c_shape = "old-style") =
              (~Undecodable /\ ~HasAnsibleModuleMarker /\ ~HasWantJsonMarker)

\* Undecodable bytes that carry both markers are run as a binary module, and
\* text with both markers as a new-style one.
C23_Witness ==
    /\ HasAnsibleModuleMarker /\ HasWantJsonMarker
    /\ \/ Undecodable /\ c_shape = "binary"
       \/ ~Undecodable /\ c_shape = "new-style" /\ Len(c_module) = MaxUnits

\* ------------------------------------------------------------------------
\* Runner selection: properties
\* ------------------------------------------------------------------------
LocalConnection(host) == host.ansible_connection = "local"

\* C26: every dispatch to a host whose connection kind is local is given to
\* and served by the local runner, as a subprocess and never through the
\* remote (SSH gate) runner; and while only such hosts have been dispatched
\* to, no remote runner exists.
C26_LocalNeverTouchesSSH ==
    /\ LocalConnection(f_cur.host) => f_cur.runner = "LocalModuleRunner"
    /\ \A k \in 1..Len(f_log) :
        LocalConnection(f_log[k].host) =>
            /\ f_log[k].runner = "LocalModuleRunner"
            /\ f_log[k].transport = "subprocess"
            /\ f_log[k].outcome \in {"success", "failure"}
    /\ ((\A k \in 1..Len(f_log) : LocalConnection(f_log[k].host))
          /\ (f_cur = NoDispatch \/ LocalConnection(f_cur.host)))
        => ~f_remote_runner

\* A local-connection host that is not named localhost was served by the
\* local runner after an ssh host had made the factory create a remote one.
C26_Witness ==
    /\ Len(f_log) >= 2
    /\ ~LocalConnection(f_log[1].host) /\ f_remote_runner
    /\ LocalConnection(f_log[2].host) /\ f_log[2].host.name = "build01"
    /\ f_log[2].runner = "LocalModuleRunner"

\* ------------------------------------------------------------------------
\* Progress reporting: properties
\* ------------------------------------------------------------------------
\* C27: a failing sink does not alter the outcome of the run: no error of the
\* sink ends the run, and every host that ran has its outcome recorded as it
\* would be with a working sink.
C27_SinkFailureSwallowed ==
    /\ p_pc # "raised"
    /\ \A h \in 1..ProgressHosts :
        (p_ran[h] # "none" /\ (h < p_host \/ p_pc \in {"execution_complete", "done"}))
            => p_results[h] = p_ran[h]

\* With a sink that works, or with the null reporter, the run ends with every
\* host's outcome recorded.
C27_WorkingSinkKeepsOutcomes ==
    (p_sink = "ok" \/ p_reporter = "NullProgressReporter") =>
        /\ p_pc # "raised"
        /\ p_pc = "done" => \A h \in 1..ProgressHosts : p_results[h] = p_ran[h]

\* ------------------------------------------------------------------------
\* State hosts into the inventory: properties
\* ------------------------------------------------------------------------
MergeDone == \A n \in StateHostNames : i_state[n].exists => n \in i_merged

\* C29: after the merge every host of the state file is, in each of its
\* groups, the host built from the state file, also when the inventory
\* already had a host of that name there.
C29_StateVersionTakesPrecedence ==
    MergeDone =>
        \A n \in StateHostNames :
            i_state[n].exists =>
                \A g \in groups_of(i_state[n]) :
                    /\ i_inventory[g].exists
                    /\ n \in DOMAIN i_inventory[g].hosts
                    /\ i_inventory[g].hosts[n] = StateHost(n)

\* The part that holds: after the merge every state host is in each of its
\* groups, created where needed, under its name.
C29_StateHostsPresent ==
    MergeDone =>
        \A n \in StateHostNames :
            i_state[n].exists =>
                \A g \in groups_of(i_state[n]) :
                    i_inventory[g].exists /\ n \in DOMAIN i_inventory[g].hosts

C31_FrameRoundTrip ==
    /\ \A i \in 1..Len(k_sent) :
          decode_messages(encode_message(k_sent[i][1].v, k_sent[i][2]))
              = Decoded(<<k_sent[i]>>)
    /\ k_decoded # <<>> => k_decoded[1] = Decoded(k_sent)
    /\ k_reader = "running"
    /\ k_pos = Len(k_raw) => k_shown = k_sent /\ k_buf = <<>>
    /\ \E n \in 0..Len(k_sent) : k_shown = SubSeq(k_sent, 1, n)

\* Two different frames were written, the second with an escaped type and
\* a two-member body, and both decoders have returned them.
C31_Witness ==
    /\ Len(k_sent) = 2 /\ k_sent[1] # k_sent[2]
    /\ k_sent[2][1].v = <<"U+00E9", "\"">> /\ Len(k_sent[2][2].v) = 2
    /\ k_decoded # <<>> /\ Len(k_decoded[1].messages) = 2
    /\ k_pos = Len(k_raw) /\ Len(k_shown) = 2

\* ------------------------------------------------------------------------
\* ping: properties
\* ------------------------------------------------------------------------

\* The echo pong command printed pong, give or take surrounding whitespace,
\* on the host or on every host it was run on.
PongStdout(output) == output.stdout = "str" /\ strip(output.text) = <<"pong">>
CommandPrintedPong ==
    CASE g_reply.kind = "output" -> PongStdout(g_reply.output)
      [] g_reply.kind = "results" ->
            /\ g_reply.results # <<>>
            /\ \A i \in 1..Len(g_reply.results) :
                  PongStdout(g_reply.results[i].output)
      [] OTHER -> FALSE

\* C32: ping succeeds, returning the mapping ping = pong, if and only if
\* the trimmed stdout of the echo pong command equals pong; in every other
\* case it fails with an error.
C32_PingIffPong ==
    g_pc = "done" =>
        /\ g_outcome = PingReturns <=> CommandPrintedPong
        /\ g_outcome # PingReturns => g_outcome.kind = "raises"

\* What the code does: the local output, or the first result of run_on,
\* decides; ping either returns ping = pong or raises.
C32_FirstResultDecides ==
    g_pc = "done" =>
        /\ g_outcome = PingReturns <=>
              \/ g_reply.kind = "output" /\ PongStdout(g_reply.output)
              \/ /\ g_reply.kind = "results" /\ g_reply.results # <<>>
                 /\ g_reply.results[1].success
                 /\ PongStdout(g_reply.results[1].output)
        /\ g_outcome # PingReturns => g_outcome.kind = "raises"

\* ------------------------------------------------------------------------
\* wait_for_ssh on a group: properties
\* ------------------------------------------------------------------------

\* The addresses of the hosts the target stands for: every member of a
\* group, the host itself, or the target's own name when the inventory
\* does not know it.
MemberAddresses(target) ==
    IF target \in DOMAIN hosts_proxy /\ hosts_proxy[target] # <<>>
    THEN {address_or(hosts_proxy[target][i], hosts_proxy[target][i].name) :
             i \in 1..Len(hosts_proxy[target])}
    ELSE {target}

\* C33: wait_for_ssh on a group target checks all hosts of the group: when
\* it returns or raises it has tried every member host, not only one.
C33_ChecksEveryMember ==
    w_pc \in {"returned", "raised"} => w_probed = MemberAddresses(w_target)

\* What the code does: only the first host of the target is ever tried.
C33_ChecksFirstMemberOnly ==
    /\ w_probed \subseteq {ansible_host(w_target)}
    /\ w_pc \in {"returned", "raised"} => w_probed = {ansible_host(w_target)}

\* ------------------------------------------------------------------------
\* Gate: system errors
\* ------------------------------------------------------------------------

\* The positions of the GateSystemError frames on stdout.
SystemErrorFrames == {k \in 1..Len(out) : out[k].type = "GateSystemError"}

\* C34: a framing or other system error in the message loop is fatal to
\* the session: the gate sends a single GateSystemError frame, writes no
\* frame after it, and terminates with exit code 1.  Main returns 1 exactly
\* when that frame has been written, and writes nothing once it returned.
C34_SystemErrorIsFatal ==
    /\ [](/\ Cardinality(SystemErrorFrames) <= 1
          /\ SystemErrorFrames \subseteq {Len(out)}
          /\ SystemErrorFrames # {} <=> gate_ret = "1"
          /\ gate_ret = "1" => ExitCode(gate_ret) = 1 /\ inflight = {})
    /\ [][gate_ret = "1" => out' = out]_vars

\* A session that served a request and then met a system error: a read
\* error, or a Module body that is not an object.
C34_Witness ==
    /\ gate_ret = "1" /\ Len(out) >= 2
    /\ out[Len(out)].type = "GateSystemError"
    /\ out[1].type # "GateSystemError"

\* The Module and FTLModule requests received whose body is not an object.
NotADictRequests ==
    {r \in 1..Len(received) :
        received[r].type \in {"Module", "FTLModule"} /\ ~received[r].isdict}

\* C35: a Module or FTLModule frame whose body is not a JSON object is
\* answered with an Error frame and the gate continues with the next
\* frame; it does not terminate the session.
C35_InvalidDataIsAnswered ==
    \A r \in NotADictRequests :
        /\ Replies(r) = 1 /\ ReplyTypes(r) = {"Error"}
        /\ gate_ret # "1"

\* What the code does: such a frame is answered with GateSystemError, it
\* is the last frame the gate handles, and main returns 1.
C35_InvalidDataIsFatal ==
    \A r \in NotADictRequests :
        /\ Replies(r) = 1 /\ ReplyTypes(r) = {"GateSystemError"}
        /\ r = Len(received) /\ gate_ret = "1"

\* The frames received whose message type the gate does not know.
UnknownRequests ==
    {r \in 1..Len(received) :
        received[r].type \notin {"Hello", "Module", "FTLModule", "Shutdown"}}

\* C36: a frame of unknown message type is answered with exactly one Error
\* frame and the gate keeps serving: handling it leaves the loop at
\* read_message, and every later request of the session that has been
\* handled has received its one reply.
C36_UnknownTypeKeepsServing ==
    /\ [](\A r \in UnknownRequests :
            /\ Replies(r) = 1 /\ ReplyTypes(r) = {"Error"}
            /\ \A later \in (r + 1)..Len(received) :
                  later \notin inflight => Replies(later) = 1)
    /\ [][main_Unknown => GateReady']_vars

\* An unknown frame, and after it a Module request that was executed and
\* answered with its ModuleResult.
C36_Witness ==
    \E r \in UnknownRequests :
        \E later \in (r + 1)..Len(received) :
            /\ received[later].type = "Module" /\ later \notin inflight
            /\ ReplyTypes(later) = {"ModuleResult"}

\* The handshake has completed before request r: a Hello frame was received
\* earlier on the session and answered with Hello.
HandshakeBefore(r) ==
    \E h \in 1..(r - 1) :
        received[h].type = "Hello" /\ ReplyTypes(h) = {"Hello"}

\* The Module and FTLModule requests handed to execute_module or
\* execute_ftl_module.
ExecutedRequests ==
    {r \in 1..Len(received) :
        received[r].type \in {"Module", "FTLModule"} /\ received[r].isdict}

\* C37: no Module or FTLModule request is executed on a session before the
\* Hello handshake has completed on it.
C37_NoExecutionBeforeHandshake ==
    \A r \in ExecutedRequests : HandshakeBefore(r)

\* What the code does: a Hello frame is echoed whenever it arrives, and
\* that is all the handshake is to the gate.
C37_HelloIsEchoed ==
    \A r \in 1..Len(received) :
        received[r].type = "Hello" => Replies(r) = 1 /\ ReplyTypes(r) = {"Hello"}

\* ------------------------------------------------------------------------
\* Executor: chunks in sequence
\* ------------------------------------------------------------------------

\* The number of the chunk host h falls in (chunks are numbered from 0).
ChunkOf(h) == (h - 1) \div chunk_size

\* C38: host chunks are processed strictly in sequence: no host of a later
\* chunk has started while a host of an earlier chunk has not finished with
\* a result or an error; the hosts inside one chunk are all started
\* together, so they run concurrently.
C38_ChunksInSequence ==
    /\ [](\A h \in 1..nhosts, later \in 1..nhosts :
            (ChunkOf(h) < ChunkOf(later) /\ tasks[later] # "none")
                => tasks[h] \in Outcomes)
    /\ [][run_chunk =>
            \A h \in chunk(next_i, chunk_size, nhosts) : tasks'[h] = "running"]_vars

\* The first chunk has finished and two hosts of the second chunk are
\* running at the same time.
C38_Witness ==
    \E h1 \in Running, h2 \in Running :
        /\ h1 # h2 /\ ChunkOf(h1) = ChunkOf(h2) /\ ChunkOf(h1) >= 1
        /\ \A h \in 1..nhosts : ChunkOf(h) < ChunkOf(h1) => tasks[h] \in Outcomes

\* ------------------------------------------------------------------------
\* Module shape on the two paths
\* ------------------------------------------------------------------------

BothClassified == c_shape # "none" /\ c_local_shape # "none"

\* C39: local dispatch and the gate classify a module with the same content
\* into the same shape, so the module is invoked with the same calling
\* convention on both paths.
C39_SameShapeOnBothPaths ==
    BothClassified => c_shape = c_local_shape /\ c_args = c_local_args

\* Where the two paths do agree: a .py module that is valid UTF-8 and holds
\* WANT_JSON but no AnsibleModule( is a WANT_JSON module on both, and gets
\* its arguments in a JSON file.
C39_AgreeOnWantJson ==
    (/\ BothClassified /\ c_suffix = ".py" /\ ~Undecodable
     /\ HasWantJsonMarker /\ ~HasAnsibleModuleMarker)
        => /\ c_shape = "WANT_JSON" /\ c_local_shape = "WANT_JSON"
           /\ c_args = "json args file" /\ c_local_args = "json args file"

\* ------------------------------------------------------------------------
\* State store: operations that find nothing
\* ------------------------------------------------------------------------

\* A call of remove_host, remove_resource, update_resource or remove that
\* returns False.
ReportsNotFound ==
    /\ remove_host \/ remove_resource \/ update_resource \/ remove
    /\ spc' = "idle" /\ last_result' = "False"

\* C40: a state operation that reports not-found (remove_host,
\* remove_resource, update_resource or remove returning False) changes
\* neither the in-memory state nor the state file, including its
\* updated_at; and it returns False only when the name was not there.
C40_NotFoundChangesNothing ==
    [][ReportsNotFound =>
          /\ data' = data /\ fs' = fs /\ orphans' = orphans
          /\ sop'.name \in {"remove_host", "remove"}
                => sop'.target \notin DOMAIN data.hosts
          /\ sop'.name \in {"remove_resource", "update_resource", "remove"}
                => sop'.target \notin DOMAIN data.resources]_vars

\* A store with a host saved to the file, on which a call has just
\* reported not-found.
C40_Witness ==
    /\ spc = "idle" /\ last_result = "False"
    /\ sop.name \in {"remove_host", "remove_resource", "update_resource", "remove"}
    /\ data.hosts # <<>> /\ fs["state"].kind = "full"
    /\ fs["state"].doc = data

====
